---- MODULE Spec2Model ----
(***************************************************************************)
(* A model of otelkit: the instrumentation facade (otelkit.go) and the     *)
(* HTTP middleware (middleware.go).                                        *)
(*                                                                         *)
(* A context is represented by the id of the span it carries (NoSpan for   *)
(* a context without a span).  A span is the record of what the facade did *)
(* on the span handle while the span was live: the SDK ignores every       *)
(* mutation of a span that has ended.  Each goroutine has a call stack of  *)
(* facade frames; user code (a TraceFunction body, an HTTP handler, or the *)
(* goroutine's top level) runs when the top frame is at pc "body" or       *)
(* "handler", or when the stack is empty.                                  *)
(***************************************************************************)
EXTENDS Integers, Sequences, FiniteSets, Bags, TLC

\* ------------------------------------------------------------- bounds
NumProcs == 2
MaxSpans == 2
MaxEvents == 1
MaxWrites == 2
MaxShutdowns == 2
MaxConstructions == 1
MaxResolutions == 1
MaxDepth == 3
MaxClock == 2
MaxLogs == 2
MaxMetrics == 1

Procs == 1..NumProcs

\* ---------------------------------------------------------- constants
NoSpan == 0

\* slog levels (log/slog: Debug -4, Info 0, Warn 4, Error 8)
LevelDebug == 0 - 4
LevelInfo == 0
LevelWarn == 4
LevelError == 8

\* middleware.go:62, the response wrapper's initial status
DefaultStatusCode == 200
\* middleware.go:79 and :88,:90, the thresholds of the status classes
ClientErrorFloor == 400
ServerErrorFloor == 500

\* ------------------------------------------------------------- inputs
\* Each goroutine tags what it passes to the facade with its own identity,
\* so that data of one invocation is recognisable on any span.
FnName(g) == "worker" \o ToString(g) \o ".fn"
FunctionNames == {FnName(g) : g \in Procs}
WorkerAttr(g) == [key |-> "worker", val |-> g]
ArgAttr(g) == [key |-> "arg", val |-> g]
\* error values: an identity (who created it) and a message; Nil is the nil
\* error, which has no message to ask for
Nil == [by |-> 0, msg |-> ""]
Errors(g) == {[by |-> g, msg |-> "boom"], [by |-> g, msg |-> "bang"]}
AllErrors == UNION {Errors(g) : g \in Procs}
Methods == {"GET", "POST"}
PathOf(g) == "/w" \o ToString(g)
StatusCodes == {200, 399, 400, 499, 500}

\* error.Error()
ErrorMsg(err) == err.msg

VARIABLES kit, spans, stack, ret, panic, localSink, exported,
          httpRequestsTotal, httpRequestDuration, activeSpansGauge,
          businessOpsCounter, shutdowns, constructions, resolutions,
          wret, clock, globalTracerProvider, globalMeterProvider, logCalls

vars == <<kit, spans, stack, ret, panic, localSink, exported,
          httpRequestsTotal, httpRequestDuration, activeSpansGauge,
          businessOpsCounter, shutdowns,
          constructions, resolutions, wret, clock, globalTracerProvider,
          globalMeterProvider, logCalls>>

\* the providers registered with the process-wide otel API
globals == <<globalTracerProvider, globalMeterProvider>>

\* what the calls of the Kit's life cycle (construction, shutdown) left
\* behind, and the Log operations user code has called so far
lifecycle == <<shutdowns, constructions, resolutions, globals, logCalls>>

\* the last result of a convenience wrapper per goroutine, and the clock
wrappers == <<wret, clock>>

telemetry == <<localSink, exported, httpRequestsTotal, httpRequestDuration,
               activeSpansGauge, businessOpsCounter>>
logs == <<localSink, exported>>
metrics == <<httpRequestsTotal, httpRequestDuration, activeSpansGauge,
             businessOpsCounter>>

\* ---------------------------------------------------------------- Kit
\* New: tracing is always initialised; the meter provider and the four
\* instruments exist only with EnableMetrics; the logger provider, the
\* OTel logger and the slog logger exist only with EnableLogs.
New(config) ==
  [config |-> config,
   tracerProvider |-> TRUE,
   meterProvider |-> config.EnableMetrics,
   httpRequestDuration |-> config.EnableMetrics,
   httpRequestsTotal |-> config.EnableMetrics,
   activeSpansGauge |-> config.EnableMetrics,
   businessOpsCounter |-> config.EnableMetrics,
   loggerProvider |-> config.EnableLogs,
   otelLogger |-> config.EnableLogs,
   logger |-> config.EnableLogs]

Configs == [EnableMetrics : BOOLEAN, EnableLogs : BOOLEAN,
            LogLevel : {LevelInfo, LevelError}]

\* otelkit.go:683-711 with no environment variable set
DefaultConfig == [EnableMetrics |-> TRUE, EnableLogs |-> TRUE,
                  LogLevel |-> LevelInfo]

\* -------------------------------------------------------------- spans
NewSpan(name, parent, attrs) ==
  [name |-> name, parent |-> parent, attrs |-> attrs, events |-> <<>>,
   status |-> "Unset", desc |-> "", endCount |-> 0]

IsRecording(sps, id) == id # NoSpan /\ sps[id].endCount = 0

\* a process-wide "current span" in place of the context's own span
SpanFromContextGlobal(ctx) == IF ctx = NoSpan THEN NoSpan ELSE Len(spans)

\* trace.SpanFromContext: the span the context carries (a no-op span if none)
SpanFromContext(ctx) == ctx

\* span.SetAttributes: a later value of a key replaces the earlier one
SpanSetAttributes(sps, id, attrs) ==
  IF IsRecording(sps, id)
  THEN [sps EXCEPT ![id].attrs =
          {a \in @ : \A b \in attrs : b.key # a.key} \cup attrs]
  ELSE sps

SpanAddEvent(sps, id, ev) ==
  IF IsRecording(sps, id)
  THEN [sps EXCEPT ![id].events = Append(@, ev)]
  ELSE sps

\* span.RecordError: an "exception" event; a nil error records nothing
SpanRecordError(sps, id, err) ==
  IF err = Nil THEN sps
  ELSE SpanAddEvent(sps, id, [name |-> "exception", attrs |-> {}, err |-> err])

\* span.SetStatus(codes.Error, desc)
SpanSetStatusError(sps, id, desc) ==
  IF IsRecording(sps, id)
  THEN [sps EXCEPT ![id].status = "Error", ![id].desc = desc]
  ELSE sps

\* span.End
SpanEnd(sps, id) == [sps EXCEPT ![id].endCount = @ + 1]

\* -------------------------------------------------------------- stack
\* a wrapper's frame also holds its arguments (name, arg, cond), the instant
\* it read the clock (start) and the time bodies beneath it have slept
Frame(op, span, ctx, pc) ==
  [op |-> op, span |-> span, ctx |-> ctx, pc |-> pc, err |-> Nil,
   method |-> "", path |-> "", statusCode |-> 0, wire |-> 0, writes |-> 0,
   name |-> "", arg |-> "", cond |-> FALSE, start |-> 0, slept |-> 0]

Top(g) == stack[g][Len(stack[g])]
Pop(g) == SubSeq(stack[g], 1, Len(stack[g]) - 1)
SetTop(g, f) == [stack[g] EXCEPT ![Len(stack[g])] = f]

NoPanic == [kind |-> "none", op |-> "", ctx |-> NoSpan]
Running(g) == panic[g] = NoPanic

\* user code has control
UserCode(g) ==
  /\ Running(g)
  /\ IF stack[g] = <<>> THEN TRUE ELSE Top(g).pc \in {"body", "handler"}

\* the contexts user code of g can name: the background context and the
\* context of every enclosing traced operation (closures capture them)
Contexts(g) == {NoSpan} \cup {stack[g][k].span : k \in 1..Len(stack[g])}

\* the gauge decrement as a plain last statement: a panic skips it
FirstDeferredEndOnly(op) == "deferEnd"

\* the first deferred call of a frame, where a panic resumes it
FirstDeferred(op) == IF op = "HTTPMiddleware" THEN "deferDecr" ELSE "deferEnd"

\* a panic raised in g's top frame: the frame's deferred calls run next
Unwind(frames) ==
  IF frames = <<>> THEN frames
  ELSE [frames EXCEPT ![Len(frames)].pc = FirstDeferred(frames[Len(frames)].op)]

NoRet == [op |-> "", span |-> NoSpan, body |-> Nil, value |-> Nil]

\* ------------------------------------------------------ TraceFunction
\* otelkit.go:872-876: StartSpan, defer span.End(), SetAttributes(attrs)
\* every span is started as a root span, whatever the context carries
StartSpanDetached(sps, ctx, name, startAttrs) ==
  Append(sps, NewSpan(name, NoSpan, startAttrs))

StartSpan(sps, ctx, name, startAttrs) ==
  Append(sps, NewSpan(name, SpanFromContext(ctx), startAttrs))

TraceFunction(g, ctx, name, attrs) ==
  /\ UserCode(g)
  /\ ctx \in Contexts(g)
  /\ Len(spans) < MaxSpans
  /\ spans' = SpanSetAttributes(StartSpan(spans, ctx, name, {}),
                                Len(spans) + 1, attrs)
  /\ stack' = [stack EXCEPT ![g] =
                 Append(@, Frame("TraceFunction", Len(spans) + 1, ctx, "body"))]
  /\ UNCHANGED <<kit, lifecycle, wrappers, ret, panic, telemetry>>

\* otelkit.go:879: fn(ctx) returns err
BodyReturn(g, err) ==
  /\ Running(g)
  /\ stack[g] # <<>>
  /\ Top(g).op = "TraceFunction"
  /\ Top(g).pc = "body"
  /\ stack' = [stack EXCEPT ![g] = SetTop(g, [Top(g) EXCEPT !.err = err,
                                                            !.pc = "after"])]
  /\ UNCHANGED <<kit, lifecycle, wrappers, spans, ret, panic, telemetry>>

\* user code panics
BodyPanic(g) ==
  /\ UserCode(g)
  /\ stack[g] # <<>>
  /\ panic' = [panic EXCEPT ![g] = [kind |-> "user", op |-> Top(g).op,
                                    ctx |-> Top(g).span]]
  /\ stack' = [stack EXCEPT ![g] = Unwind(@)]
  /\ UNCHANGED <<kit, lifecycle, wrappers, spans, ret, telemetry>>

\* the error is recorded as an event but the status is left alone
TraceFunctionAfterNoStatus(sps, id, err) ==
  IF err # Nil THEN SpanRecordError(sps, id, err) ELSE sps

\* the status is set whatever the body returned
TraceFunctionAfterMarksAll(sps, id, err) ==
  SpanSetStatusError(SpanRecordError(sps, id, err), id, err.msg)

\* otelkit.go:880-883
TraceFunctionAfter(sps, id, err) ==
  IF err # Nil
  THEN SpanSetStatusError(SpanRecordError(sps, id, err), id, ErrorMsg(err))
  ELSE sps

TraceFunctionAfterBody(g) ==
  /\ Running(g)
  /\ stack[g] # <<>>
  /\ Top(g).op = "TraceFunction"
  /\ Top(g).pc = "after"
  /\ spans' = TraceFunctionAfter(spans, Top(g).span, Top(g).err)
  /\ stack' = [stack EXCEPT ![g] = SetTop(g, [Top(g) EXCEPT !.pc = "deferEnd"])]
  /\ UNCHANGED <<kit, lifecycle, wrappers, ret, panic, telemetry>>

\* a new error with the same message in place of the body's error
TraceFunctionResultWrapped(err) ==
  IF err = Nil THEN Nil ELSE [by |-> 0, msg |-> err.msg]

\* otelkit.go:885: return err
TraceFunctionResult(err) == err

\* span.End() as the function's last statement instead of a deferred call
TraceFunctionExitNotDeferred(sps, id, panicking) ==
  IF panicking THEN sps ELSE SpanEnd(sps, id)

\* otelkit.go:873: defer span.End() runs on return and while panicking
TraceFunctionExit(sps, id, panicking) == SpanEnd(sps, id)

TraceFunctionDeferredEnd(g) ==
  /\ stack[g] # <<>>
  /\ Top(g).op = "TraceFunction"
  /\ Top(g).pc = "deferEnd"
  /\ spans' = TraceFunctionExit(spans, Top(g).span, ~Running(g))
  /\ IF Running(g)
     THEN /\ stack' = [stack EXCEPT ![g] = Pop(g)]
          /\ ret' = [ret EXCEPT ![g] =
                       [op |-> "TraceFunction", span |-> Top(g).span,
                        body |-> Top(g).err,
                        value |-> TraceFunctionResult(Top(g).err)]]
     ELSE /\ stack' = [stack EXCEPT ![g] = Unwind(Pop(g))]
          /\ UNCHANGED ret
  /\ UNCHANGED <<kit, lifecycle, wrappers, panic, telemetry>>

\* ------------------------------------------- AddEvent, SetAttributes
AddEvent(g, ctx, name, attrs) ==
  /\ UserCode(g)
  /\ ctx \in Contexts(g)
  /\ ctx # NoSpan => Len(spans[ctx].events) < MaxEvents
  /\ spans' = SpanAddEvent(spans, SpanFromContext(ctx),
                           [name |-> name, attrs |-> attrs, err |-> Nil])
  /\ UNCHANGED <<kit, lifecycle, wrappers, stack, ret, panic, telemetry>>

SetAttributes(g, ctx, attrs) ==
  /\ UserCode(g)
  /\ ctx \in Contexts(g)
  /\ spans' = SpanSetAttributes(spans, SpanFromContext(ctx), attrs)
  /\ UNCHANGED <<kit, lifecycle, wrappers, stack, ret, panic, telemetry>>

\* otelkit.go:968-972: err.Error() on a nil error is a nil dereference
RecordError(g, ctx, err) ==
  /\ UserCode(g)
  /\ ctx \in Contexts(g)
  /\ ctx # NoSpan => Len(spans[ctx].events) < MaxEvents
  /\ IF err = Nil
     THEN /\ spans' = SpanRecordError(spans, SpanFromContext(ctx), err)
          /\ panic' = [panic EXCEPT ![g] = [kind |-> "nil dereference",
                                            op |-> "RecordError", ctx |-> ctx]]
          /\ stack' = [stack EXCEPT ![g] = Unwind(@)]
     ELSE /\ spans' = SpanSetStatusError(
                        SpanRecordError(spans, SpanFromContext(ctx), err),
                        SpanFromContext(ctx), ErrorMsg(err))
          /\ UNCHANGED <<stack, panic>>
  /\ UNCHANGED <<kit, lifecycle, wrappers, ret, telemetry>>

\* ------------------------------------------------------------ logging
\* strconv.Itoa
Digit(d) ==
  CASE d = 0 -> "0" [] d = 1 -> "1" [] d = 2 -> "2" [] d = 3 -> "3"
    [] d = 4 -> "4" [] d = 5 -> "5" [] d = 6 -> "6" [] d = 7 -> "7"
    [] d = 8 -> "8" [] d = 9 -> "9"

RECURSIVE Itoa(_)
Itoa(n) == IF n < 10 THEN Digit(n) ELSE Itoa(n \div 10) \o Digit(n % 10)

\* http.StatusText: the empty string for a code without a registered text
StatusText(code) ==
  CASE code = 200 -> "OK"
    [] code = 400 -> "Bad Request"
    [] code = 404 -> "Not Found"
    [] code = 500 -> "Internal Server Error"
    [] OTHER -> ""

RECURSIVE TraceID(_, _)
TraceID(sps, id) ==
  IF sps[id].parent = NoSpan THEN id ELSE TraceID(sps, sps[id].parent)

\* the slog JSON handler (otelkit.go:1528-1540): a record below the
\* configured level is dropped; the record holds level, message, attributes
SinkWrite(sink, level, msg, attrs) ==
  IF level >= kit.config.LogLevel
  THEN sink (+) SetToBag({[level |-> level, msg |-> msg, attrs |-> attrs]})
  ELSE sink

\* the record is emitted without the identifiers of the active span
EmitOTelLogUncorrelated(exp, ctx, severity, msg, attrs) ==
  IF ~kit.otelLogger THEN exp
  ELSE exp (+) SetToBag({[severity |-> severity, body |-> msg,
                          attrs |-> attrs]})

\* the configured minimum level applied to the export pipeline as well
EmitOTelLogFiltered(exp, ctx, severity, msg, attrs) ==
  LET level == CASE severity = "DEBUG" -> LevelDebug
                 [] severity = "INFO" -> LevelInfo
                 [] severity = "WARN" -> LevelWarn
                 [] severity = "ERROR" -> LevelError
      id == SpanFromContext(ctx)
      correlation ==
        IF id # NoSpan
        THEN {[key |-> "trace_id", val |-> TraceID(spans, id)],
              [key |-> "span_id", val |-> id]}
        ELSE {}
  IN IF ~kit.otelLogger \/ level < kit.config.LogLevel THEN exp
     ELSE exp (+) SetToBag({[severity |-> severity, body |-> msg,
                             attrs |-> attrs \cup correlation]})

\* otelkit.go:1141-1168
EmitOTelLog(exp, ctx, severity, msg, attrs) ==
  IF ~kit.otelLogger THEN exp
  ELSE LET id == SpanFromContext(ctx)
           correlation ==
             IF id # NoSpan
             THEN {[key |-> "trace_id", val |-> TraceID(spans, id)],
                   [key |-> "span_id", val |-> id]}
             ELSE {}
       IN exp (+) SetToBag({[severity |-> severity, body |-> msg,
                             attrs |-> attrs \cup correlation]})

\* otelkit.go:1036-1044: the pair <<local sink, export pipeline>> afterwards
LogInfo(ls, ctx, msg, attrs) ==
  <<IF kit.logger THEN SinkWrite(ls[1], LevelInfo, msg, attrs) ELSE ls[1],
    EmitOTelLog(ls[2], ctx, "INFO", msg, attrs)>>

\* slog.Any("error", err) as converted by convertSlogAttr: fmt's text of the
\* value, "<nil>" for a nil error
ErrorText(err) == IF err = Nil THEN "<nil>" ELSE ErrorMsg(err)

\* otelkit.go:1056-1066
LogError(ls, ctx, msg, err, attrs) ==
  LET allAttrs == attrs \cup {[key |-> "error", val |-> ErrorText(err)]}
  IN <<IF kit.logger THEN SinkWrite(ls[1], LevelError, msg, allAttrs)
                     ELSE ls[1],
       EmitOTelLog(ls[2], ctx, "ERROR", msg, allAttrs)>>

\* ----------------------------------------------------- HTTPMiddleware
InHTTP(g, pc) ==
  /\ stack[g] # <<>>
  /\ Top(g).op = "HTTPMiddleware"
  /\ Top(g).pc = pc

Goto(g, pc) == [stack EXCEPT ![g] = SetTop(g, [Top(g) EXCEPT !.pc = pc])]

RequestAttrs(method, path) ==
  {[key |-> "http.method", val |-> method],
   [key |-> "http.url", val |-> path],
   [key |-> "http.route", val |-> path],
   [key |-> "http.user_agent", val |-> "agent"],
   [key |-> "http.remote_addr", val |-> "addr"]}

\* middleware.go:35-47: the request's own context carries no span
HTTPMiddleware(g, method, path) ==
  /\ Running(g)
  /\ stack[g] = <<>>
  /\ Len(spans) < MaxSpans
  /\ spans' = StartSpan(spans, NoSpan, method \o " " \o path,
                        RequestAttrs(method, path))
  /\ stack' = [stack EXCEPT ![g] =
                 <<[Frame("HTTPMiddleware", Len(spans) + 1, NoSpan, "incr")
                      EXCEPT !.method = method, !.path = path]>>]
  /\ UNCHANGED <<kit, lifecycle, wrappers, ret, panic, telemetry>>

\* otelkit.go:1188-1199
GaugeAdd(gauge, n) == IF kit.activeSpansGauge THEN gauge + n ELSE gauge

\* middleware.go:50-51
HTTPIncrement(g) ==
  /\ Running(g)
  /\ InHTTP(g, "incr")
  /\ activeSpansGauge' = GaugeAdd(activeSpansGauge, 1)
  /\ stack' = Goto(g, "logStart")
  /\ UNCHANGED <<kit, lifecycle, wrappers, spans, ret, panic, logs, httpRequestsTotal,
                 httpRequestDuration, businessOpsCounter>>

\* middleware.go:54-62: the "request started" log, then the response wrapper
HTTPLogStart(g) ==
  /\ Running(g)
  /\ InHTTP(g, "logStart")
  /\ LET f == Top(g)
         ls == LogInfo(<<localSink, exported>>, f.span, "HTTP request started",
                       {[key |-> "method", val |-> f.method],
                        [key |-> "path", val |-> f.path],
                        [key |-> "user_agent", val |-> "agent"],
                        [key |-> "remote_addr", val |-> "addr"]})
     IN /\ localSink' = ls[1]
        /\ exported' = ls[2]
        /\ stack' = [stack EXCEPT ![g] =
                       SetTop(g, [f EXCEPT !.pc = "handler",
                                           !.statusCode = DefaultStatusCode])]
  /\ UNCHANGED <<kit, lifecycle, wrappers, spans, ret, panic, metrics>>

\* net/http's writer underneath the wrapper: the first status written is the
\* one sent; a body write before any WriteHeader sends 200
WireWriteHeader(wire, code) == IF wire = 0 THEN code ELSE wire

\* middleware.go:129-132
WrapperWriteHeader(statusCode, code) == code

HandlerWriteHeader(g, code) ==
  /\ Running(g)
  /\ InHTTP(g, "handler")
  /\ Top(g).writes < MaxWrites
  /\ stack' = [stack EXCEPT ![g] =
                 SetTop(g, [Top(g) EXCEPT
                              !.statusCode = WrapperWriteHeader(@, code),
                              !.wire = WireWriteHeader(@, code),
                              !.writes = @ + 1])]
  /\ UNCHANGED <<kit, lifecycle, wrappers, spans, ret, panic, telemetry>>

\* the wrapper has no Write of its own: the embedded writer's Write runs
HandlerWrite(g) ==
  /\ Running(g)
  /\ InHTTP(g, "handler")
  /\ Top(g).writes < MaxWrites
  /\ stack' = [stack EXCEPT ![g] =
                 SetTop(g, [Top(g) EXCEPT
                              !.wire = WireWriteHeader(@, 200),
                              !.writes = @ + 1])]
  /\ UNCHANGED <<kit, lifecycle, wrappers, spans, ret, panic, telemetry>>

\* middleware.go:65: next.ServeHTTP returns
HandlerReturn(g) ==
  /\ Running(g)
  /\ InHTTP(g, "handler")
  /\ stack' = Goto(g, "finalize")
  /\ UNCHANGED <<kit, lifecycle, wrappers, spans, ret, panic, telemetry>>

\* only 5xx responses mark the span
IsErrorStatusServerOnly(code) == code >= ServerErrorFloor

\* middleware.go:79
IsErrorStatus(code) == code >= ClientErrorFloor

\* middleware.go:72-81
HTTPSpanResponse(sps, id, code) ==
  LET withAttrs == SpanSetAttributes(sps, id,
                     {[key |-> "http.status_code", val |-> code],
                      [key |-> "http.status_text", val |-> StatusText(code)]})
  IN IF IsErrorStatus(code)
     THEN SpanSetStatusError(withAttrs, id, StatusText(code))
     ELSE withAttrs

HTTPFinalizeSpan(g) ==
  /\ Running(g)
  /\ InHTTP(g, "finalize")
  /\ spans' = HTTPSpanResponse(spans, Top(g).span, Top(g).statusCode)
  /\ stack' = Goto(g, "metrics")
  /\ UNCHANGED <<kit, lifecycle, wrappers, ret, panic, telemetry>>

\* the status code left out of the tags
HTTPMetricAttrsMethodOnly(method, statusCode) ==
  {[key |-> "method", val |-> method]}

\* otelkit.go:1124-1138
HTTPMetricAttrs(method, statusCode) ==
  {[key |-> "method", val |-> method], [key |-> "status_code", val |-> statusCode]}

\* middleware.go:69,84
HTTPRecordMetrics(g) ==
  /\ Running(g)
  /\ InHTTP(g, "metrics")
  /\ LET tags == HTTPMetricAttrs(Top(g).method, Itoa(Top(g).statusCode))
     IN /\ httpRequestsTotal' =
             IF kit.httpRequestsTotal
             THEN httpRequestsTotal (+) SetToBag({tags}) ELSE httpRequestsTotal
        /\ httpRequestDuration' =
             IF kit.httpRequestDuration
             THEN httpRequestDuration (+) SetToBag({tags})
             ELSE httpRequestDuration
  /\ stack' = Goto(g, "completionLog")
  /\ UNCHANGED <<kit, lifecycle, wrappers, spans, ret, panic, logs, activeSpansGauge,
                 businessOpsCounter>>

\* middleware.go:87-92
CompletionLevel(code) ==
  IF code >= ServerErrorFloor THEN LevelError
  ELSE IF code >= ClientErrorFloor THEN LevelWarn
  ELSE LevelInfo

CompletionAttrs(f) ==
  {[key |-> "method", val |-> f.method],
   [key |-> "path", val |-> f.path],
   [key |-> "status_code", val |-> f.statusCode],
   [key |-> "status_text", val |-> StatusText(f.statusCode)]}

\* middleware.go:94-100: o.logger.LogAttrs with no nil check; a nil
\* *slog.Logger is dereferenced
HTTPCompletionLog(g) ==
  /\ Running(g)
  /\ InHTTP(g, "completionLog")
  /\ IF kit.logger
     THEN /\ localSink' = SinkWrite(localSink, CompletionLevel(Top(g).statusCode),
                                    "HTTP request completed",
                                    CompletionAttrs(Top(g)))
          /\ stack' = Goto(g, "errorLog")
          /\ UNCHANGED panic
     ELSE /\ panic' = [panic EXCEPT ![g] =
                         [kind |-> "nil dereference", op |-> "HTTPMiddleware",
                          ctx |-> Top(g).span]]
          /\ stack' = [stack EXCEPT ![g] = Unwind(@)]
          /\ UNCHANGED localSink
  /\ UNCHANGED <<kit, lifecycle, wrappers, spans, ret, exported, metrics>>

\* middleware.go:103-109
HTTPErrorLog(g) ==
  /\ Running(g)
  /\ InHTTP(g, "errorLog")
  /\ LET f == Top(g)
         ls == IF IsErrorStatus(f.statusCode)
               THEN LogError(<<localSink, exported>>, f.span,
                             "HTTP request failed", Nil,
                             {[key |-> "status_code", val |-> f.statusCode],
                              [key |-> "path", val |-> f.path]})
               ELSE <<localSink, exported>>
     IN /\ localSink' = ls[1]
        /\ exported' = ls[2]
  /\ stack' = Goto(g, "deferDecr")
  /\ UNCHANGED <<kit, lifecycle, wrappers, spans, ret, panic, metrics>>

\* middleware.go:51: defer o.DecrementActiveSpans(ctx)
HTTPDeferredDecrement(g) ==
  /\ InHTTP(g, "deferDecr")
  /\ activeSpansGauge' = GaugeAdd(activeSpansGauge, 0 - 1)
  /\ stack' = Goto(g, "deferEnd")
  /\ UNCHANGED <<kit, lifecycle, wrappers, spans, ret, panic, logs, httpRequestsTotal,
                 httpRequestDuration, businessOpsCounter>>

\* middleware.go:47: defer span.End(); the handler function returns nothing
HTTPDeferredEnd(g) ==
  /\ InHTTP(g, "deferEnd")
  /\ spans' = SpanEnd(spans, Top(g).span)
  /\ stack' = [stack EXCEPT ![g] = Unwind(Pop(g))]
  /\ ret' = IF Running(g)
            THEN [ret EXCEPT ![g] = [op |-> "HTTPMiddleware",
                                     span |-> Top(g).span, body |-> Nil,
                                     value |-> Nil]]
            ELSE ret
  /\ UNCHANGED <<kit, lifecycle, wrappers, panic, telemetry>>

\* ----------------------------------------------- convenience wrappers
NoWrapperRet ==
  [op |-> "", cond |-> FALSE, name |-> "", arg |-> "", ctx |-> NoSpan,
   span |-> NoSpan, body |-> Nil, value |-> Nil, duration |-> 0, slept |-> 0]

\* the frame of a wrapper called with ctx: user code beneath it can name ctx
WrapperFrame(op, ctx, pc, name, arg, cond) ==
  [Frame(op, ctx, ctx, pc) EXCEPT !.name = name, !.arg = arg, !.cond = cond,
                                  !.start = clock]

\* otelkit.go:872-876, TraceFunction up to the call of its body
CallTraceFunction(sps, ctx, name, attrs) ==
  SpanSetAttributes(StartSpan(sps, ctx, name, {}), Len(sps) + 1, attrs)

\* a wrapper's frame with the frame of the TraceFunction it calls on top
PushTraced(frames, wrapperFrame, id) ==
  Append(Append(frames, wrapperFrame),
         Frame("TraceFunction", id, wrapperFrame.ctx, "body"))

\* the condition is ignored and the body always traced
ConditionalTraceAlways(condition) == TRUE

\* middleware.go:316
ConditionalTraceTraces(condition) == condition

\* middleware.go:315-320
ConditionalTrace(g, ctx, condition, name) ==
  /\ UserCode(g)
  /\ ctx \in Contexts(g)
  /\ Len(stack[g]) < MaxDepth
  /\ IF ConditionalTraceTraces(condition)
     THEN /\ Len(spans) < MaxSpans
          /\ spans' = CallTraceFunction(spans, ctx, name, {})
          /\ stack' = [stack EXCEPT ![g] =
                         PushTraced(@, WrapperFrame("ConditionalTrace", ctx,
                                                    "inner", name, "", condition),
                                    Len(spans) + 1)]
     ELSE /\ spans' = spans
          /\ stack' = [stack EXCEPT ![g] =
                         Append(@, WrapperFrame("ConditionalTrace", ctx, "body",
                                                name, "", condition))]
  /\ UNCHANGED <<kit, lifecycle, wrappers, ret, panic, telemetry>>

\* middleware.go:319: return fn(ctx)
DirectBodyReturn(g, err) ==
  /\ Running(g)
  /\ stack[g] # <<>>
  /\ Top(g).op = "ConditionalTrace"
  /\ Top(g).pc = "body"
  /\ stack' = [stack EXCEPT ![g] = Pop(g)]
  /\ wret' = [wret EXCEPT ![g] =
                [NoWrapperRet EXCEPT !.op = Top(g).op, !.cond = Top(g).cond,
                                     !.name = Top(g).name, !.ctx = Top(g).ctx,
                                     !.body = err, !.value = err]]
  /\ UNCHANGED <<kit, lifecycle, clock, spans, ret, panic, telemetry>>

\* the wrappers that are one return statement around TraceFunction
ThinWrappers == {"ConditionalTrace", "CacheOperation", "ExternalServiceCall",
                 "BatchOperation"}

\* middleware.go:212,236,292,317: return o.TraceFunction(...)
ThinWrapperReturn(g) ==
  /\ Running(g)
  /\ stack[g] # <<>>
  /\ Top(g).op \in ThinWrappers
  /\ Top(g).pc = "inner"
  /\ stack' = [stack EXCEPT ![g] = Pop(g)]
  /\ wret' = [wret EXCEPT ![g] =
                [NoWrapperRet EXCEPT !.op = Top(g).op, !.cond = Top(g).cond,
                                     !.name = Top(g).name, !.arg = Top(g).arg,
                                     !.ctx = Top(g).ctx, !.span = ret[g].span,
                                     !.body = ret[g].body,
                                     !.value = ret[g].value]]
  /\ UNCHANGED <<kit, lifecycle, clock, spans, ret, panic, telemetry>>

WrapperOps == ThinWrappers \cup {"TimedOperation", "DatabaseOperation"}

\* a panic passes through a wrapper: it has no deferred call
WrapperUnwind(g) ==
  /\ ~Running(g)
  /\ stack[g] # <<>>
  /\ Top(g).op \in WrapperOps
  /\ Top(g).pc = "deferEnd"
  /\ stack' = [stack EXCEPT ![g] = Unwind(Pop(g))]
  /\ UNCHANGED <<kit, lifecycle, wrappers, spans, ret, panic, telemetry>>

\* user code of g lets one unit of time pass (time.Sleep): every call of g
\* in progress has spent it
BodySleep(g) ==
  /\ UserCode(g)
  /\ stack[g] # <<>>
  /\ clock < MaxClock
  /\ clock' = clock + 1
  /\ stack' = [stack EXCEPT ![g] =
                 [k \in 1..Len(@) |-> [@[k] EXCEPT !.slept = @ + 1]]]
  /\ UNCHANGED <<kit, lifecycle, wret, spans, ret, panic, telemetry>>

\* time passes for any other reason
Tick ==
  /\ clock < MaxClock
  /\ clock' = clock + 1
  /\ UNCHANGED <<kit, lifecycle, wret, spans, stack, ret, panic, telemetry>>

\* ------------------------------------------------------ TimedOperation
\* the operands the wrong way round
SinceSwapped(start, now) == start - now

\* time.Since(start) when the clock reads now
Since(start, now) == now - start

\* middleware.go:259: start := time.Now()
TimedOperation(g, ctx, name) ==
  /\ UserCode(g)
  /\ ctx \in Contexts(g)
  /\ Len(stack[g]) < MaxDepth
  /\ Len(spans) < MaxSpans
  /\ stack' = [stack EXCEPT ![g] =
                 Append(@, WrapperFrame("TimedOperation", ctx, "call", name, "",
                                        FALSE))]
  /\ UNCHANGED <<kit, lifecycle, wrappers, spans, ret, panic, telemetry>>

\* middleware.go:261-263: TraceFunction is called with a closure that
\* passes its own context on to fn
TimedOperationCall(g) ==
  /\ Running(g)
  /\ stack[g] # <<>>
  /\ Top(g).op = "TimedOperation"
  /\ Top(g).pc = "call"
  /\ Len(spans) < MaxSpans
  /\ spans' = CallTraceFunction(spans, Top(g).ctx, Top(g).name, {})
  /\ stack' = [stack EXCEPT ![g] =
                 PushTraced(Pop(g), [Top(g) EXCEPT !.pc = "inner"],
                            Len(spans) + 1)]
  /\ UNCHANGED <<kit, lifecycle, wrappers, ret, panic, telemetry>>

\* middleware.go:268-269: the attribute goes to the span of the context
\* TimedOperation was called with
TimedOperationSpan(sps, ctx, duration) ==
  SpanSetAttributes(sps, SpanFromContext(ctx),
                    {[key |-> "operation.duration_ms", val |-> duration]})

\* middleware.go:265-271
TimedOperationAfter(g) ==
  /\ Running(g)
  /\ stack[g] # <<>>
  /\ Top(g).op = "TimedOperation"
  /\ Top(g).pc = "inner"
  /\ LET duration == Since(Top(g).start, clock)
     IN /\ spans' = TimedOperationSpan(spans, Top(g).ctx, duration)
        /\ wret' = [wret EXCEPT ![g] =
                      [NoWrapperRet EXCEPT !.op = Top(g).op,
                                           !.name = Top(g).name,
                                           !.ctx = Top(g).ctx,
                                           !.span = ret[g].span,
                                           !.body = ret[g].body,
                                           !.value = ret[g].value,
                                           !.duration = duration,
                                           !.slept = Top(g).slept]]
  /\ stack' = [stack EXCEPT ![g] = Pop(g)]
  /\ UNCHANGED <<kit, lifecycle, clock, ret, panic, telemetry>>

\* ------------------- Cache, ExternalServiceCall, Batch, Database
\* the wrapper hands TraceFunction no attributes
WrapperAttrsNone(op, name, arg) == {}

\* middleware.go:169-171,214-215,238-239,294-295
WrapperAttrs(op, name, arg) ==
  CASE op = "DatabaseOperation" ->
         {[key |-> "db.operation", val |-> name],
          [key |-> "db.table", val |-> arg],
          [key |-> "db.type", val |-> "unknown"]}
    [] op = "CacheOperation" ->
         {[key |-> "cache.operation", val |-> name],
          [key |-> "cache.key", val |-> arg]}
    [] op = "ExternalServiceCall" ->
         {[key |-> "service.name", val |-> arg],
          [key |-> "service.operation", val |-> name]}
    [] op = "BatchOperation" ->
         {[key |-> "batch.operation", val |-> name],
          [key |-> "batch.item_count", val |-> arg]}

\* middleware.go:167,212,236,292
WrapperSpanName(op, name, arg) ==
  CASE op = "DatabaseOperation" -> "db." \o name
    [] op = "CacheOperation" -> "cache." \o name
    [] op = "ExternalServiceCall" -> "external." \o arg \o "." \o name
    [] op = "BatchOperation" -> "batch." \o name

\* the wrapper's call of TraceFunction with its span name and attributes
TracedCall(g, ctx, op, name, arg) ==
  /\ UserCode(g)
  /\ ctx \in Contexts(g)
  /\ Len(stack[g]) < MaxDepth
  /\ Len(spans) < MaxSpans
  /\ spans' = CallTraceFunction(spans, ctx, WrapperSpanName(op, name, arg),
                                WrapperAttrs(op, name, arg))
  /\ stack' = [stack EXCEPT ![g] =
                 PushTraced(@, WrapperFrame(op, ctx, "inner", name, arg, FALSE),
                            Len(spans) + 1)]

\* middleware.go:211-217
CacheOperation(g, ctx, operation, key) ==
  /\ TracedCall(g, ctx, "CacheOperation", operation, key)
  /\ UNCHANGED <<kit, lifecycle, wrappers, ret, panic, telemetry>>

\* middleware.go:235-241
ExternalServiceCall(g, ctx, serviceName, operation) ==
  /\ TracedCall(g, ctx, "ExternalServiceCall", operation, serviceName)
  /\ UNCHANGED <<kit, lifecycle, wrappers, ret, panic, telemetry>>

\* middleware.go:291-297
BatchOperation(g, ctx, operationName, itemCount) ==
  /\ TracedCall(g, ctx, "BatchOperation", operationName, itemCount)
  /\ UNCHANGED <<kit, lifecycle, wrappers, ret, panic, telemetry>>

\* otelkit.go:1077-1085
LogDebug(ls, ctx, msg, attrs) ==
  <<IF kit.logger THEN SinkWrite(ls[1], LevelDebug, msg, attrs) ELSE ls[1],
    EmitOTelLog(ls[2], ctx, "DEBUG", msg, attrs)>>

\* otelkit.go:1116-1121: the measurement is made with the context given
RecordMetric(counter, ctx, operation, value, attrs) ==
  IF kit.businessOpsCounter
  THEN counter (+) SetToBag({[ctx |-> ctx, value |-> value,
                              attrs |-> attrs \cup {[key |-> "operation_type",
                                                     val |-> operation]}]})
  ELSE counter

\* the completion log and the metric are issued with the db span's context
DatabaseContextOfSpan(callerCtx, dbSpan) == dbSpan

\* middleware.go:154,174,180,188: ctx is the parameter of
\* DatabaseOperation; the context TraceFunction derives is seen by fn only
DatabaseContext(callerCtx, dbSpan) == callerCtx

DatabaseLogAttrs(operation, table) ==
  {[key |-> "operation", val |-> operation], [key |-> "table", val |-> table]}

\* middleware.go:154-172: the "started" debug log, the clock, TraceFunction
DatabaseOperation(g, ctx, operation, table) ==
  /\ TracedCall(g, ctx, "DatabaseOperation", operation, table)
  /\ LET ls == LogDebug(<<localSink, exported>>, ctx,
                        "Database operation started",
                        DatabaseLogAttrs(operation, table))
     IN /\ localSink' = ls[1]
        /\ exported' = ls[2]
  /\ UNCHANGED <<kit, lifecycle, wrappers, ret, panic, metrics>>

\* middleware.go:174-194
DatabaseOperationAfter(g) ==
  /\ Running(g)
  /\ stack[g] # <<>>
  /\ Top(g).op = "DatabaseOperation"
  /\ Top(g).pc = "inner"
  /\ LET f == Top(g)
         err == ret[g].value
         timed == DatabaseLogAttrs(f.name, f.arg)
                    \cup {[key |-> "duration_ms", val |-> Since(f.start, clock)]}
         ctx == DatabaseContext(f.ctx, ret[g].span)
         ls == IF err # Nil
               THEN LogError(<<localSink, exported>>, ctx,
                             "Database operation failed", err, timed)
               ELSE LogDebug(<<localSink, exported>>, ctx,
                             "Database operation completed", timed)
     IN /\ localSink' = ls[1]
        /\ exported' = ls[2]
        /\ businessOpsCounter' =
             RecordMetric(businessOpsCounter, ctx, "database_operation", 1,
                          {[key |-> "db.operation", val |-> f.name],
                           [key |-> "db.table", val |-> f.arg],
                           [key |-> "success", val |-> (err = Nil)]})
        /\ wret' = [wret EXCEPT ![g] =
                      [NoWrapperRet EXCEPT !.op = f.op, !.name = f.name,
                                           !.arg = f.arg, !.ctx = f.ctx,
                                           !.span = ret[g].span,
                                           !.body = ret[g].body,
                                           !.value = err]]
  /\ stack' = [stack EXCEPT ![g] = Pop(g)]
  /\ UNCHANGED <<kit, lifecycle, clock, spans, ret, panic, httpRequestsTotal,
                 httpRequestDuration, activeSpansGauge>>

\* ----------------------------------- the Log operations in user code
\* otelkit.go:1096-1104
LogWarn(ls, ctx, msg, attrs) ==
  <<IF kit.logger THEN SinkWrite(ls[1], LevelWarn, msg, attrs) ELSE ls[1],
    EmitOTelLog(ls[2], ctx, "WARN", msg, attrs)>>

\* the call as user code wrote it
LogCall(g, op, ctx, msg, err, attrs) ==
  [by |-> g, op |-> op, ctx |-> ctx, msg |-> msg, err |-> err, attrs |-> attrs]

\* user code of g calls a Log operation that leaves the pair ls behind
Logged(g, call, ls) ==
  /\ UserCode(g)
  /\ call.ctx \in Contexts(g)
  /\ Len(logCalls) < MaxLogs
  /\ localSink' = ls[1]
  /\ exported' = ls[2]
  /\ logCalls' = Append(logCalls, call)
  /\ UNCHANGED <<kit, shutdowns, constructions, resolutions, globals,
                 wrappers, spans, stack, ret, panic, metrics>>

CallLogInfo(g, ctx, msg, attrs) ==
  Logged(g, LogCall(g, "LogInfo", ctx, msg, Nil, attrs),
         LogInfo(<<localSink, exported>>, ctx, msg, attrs))

CallLogWarn(g, ctx, msg, attrs) ==
  Logged(g, LogCall(g, "LogWarn", ctx, msg, Nil, attrs),
         LogWarn(<<localSink, exported>>, ctx, msg, attrs))

CallLogError(g, ctx, msg, err, attrs) ==
  Logged(g, LogCall(g, "LogError", ctx, msg, err, attrs),
         LogError(<<localSink, exported>>, ctx, msg, err, attrs))

CallLogDebug(g, ctx, msg, attrs) ==
  Logged(g, LogCall(g, "LogDebug", ctx, msg, Nil, attrs),
         LogDebug(<<localSink, exported>>, ctx, msg, attrs))

\* otelkit.go:1116-1121 called by user code
CallRecordMetric(g, ctx, operation, value, attrs) ==
  /\ UserCode(g)
  /\ ctx \in Contexts(g)
  /\ BagCardinality(businessOpsCounter) < MaxMetrics
  /\ businessOpsCounter' =
       RecordMetric(businessOpsCounter, ctx, operation, value, attrs)
  /\ UNCHANGED <<kit, lifecycle, wrappers, spans, stack, ret, panic, logs,
                 httpRequestsTotal, httpRequestDuration, activeSpansGauge>>

\* ----------------------------------------------------------- Shutdown
\* the three providers in the order Shutdown visits them
Providers == <<"tracer", "meter", "logger">>
ProviderNames == {Providers[i] : i \in 1..Len(Providers)}

\* the nil checks left out: Shutdown is called on every handle, nil or not
InitializedUnchecked(k, p) == TRUE

\* otelkit.go:799,806,813: the provider field is non-nil
Initialized(k, p) ==
  CASE p = "tracer" -> k.tracerProvider
    [] p = "meter" -> k.meterProvider
    [] p = "logger" -> k.loggerProvider

\* the error a provider's own Shutdown returns when it fails
ProviderFailure(p) == [by |-> 0, msg |-> p \o " flush failed"]

\* fmt.Errorf("<kind> provider shutdown: %w", err)
WrapShutdownError(p, err) ==
  [by |-> 0, msg |-> p \o " provider shutdown: " \o ErrorMsg(err)]

\* fmt's %v of a []error: the messages separated by blanks, in brackets
RECURSIVE JoinErrors(_)
JoinErrors(errs) ==
  IF errs = <<>> THEN ""
  ELSE IF Len(errs) = 1 THEN ErrorMsg(errs[1])
  ELSE ErrorMsg(errs[1]) \o " " \o JoinErrors(Tail(errs))

\* otelkit.go:822-823
CombinedShutdownError(errs) ==
  [by |-> 0, msg |-> "shutdown errors: [" \o JoinErrors(errs) \o "]"]

\* the first failure ends the call: later providers are not shut down
RECURSIVE ShutdownFromStopAtFirst(_, _, _, _)
ShutdownFromStopAtFirst(k, failing, i, run) ==
  IF i > Len(Providers) THEN run
  ELSE LET p == Providers[i]
       IN IF ~Initialized(k, p)
          THEN ShutdownFromStopAtFirst(k, failing, i + 1, run)
          ELSE IF p \in failing
          THEN [run EXCEPT !.attempted = Append(@, p),
                           !.errs = Append(@, WrapShutdownError(p, ProviderFailure(p)))]
          ELSE ShutdownFromStopAtFirst(k, failing, i + 1,
                 [run EXCEPT !.attempted = Append(@, p)])

\* otelkit.go:798-818 from the i-th provider on: a nil provider is skipped;
\* a failure is appended to errs and the next provider is visited
RECURSIVE ShutdownFrom(_, _, _, _)
ShutdownFrom(k, failing, i, run) ==
  IF i > Len(Providers) THEN run
  ELSE LET p == Providers[i]
       IN IF ~Initialized(k, p)
          THEN ShutdownFrom(k, failing, i + 1, run)
          ELSE IF p \in failing
          THEN ShutdownFrom(k, failing, i + 1,
                 [run EXCEPT !.attempted = Append(@, p),
                             !.errs = Append(@, WrapShutdownError(p, ProviderFailure(p)))])
          ELSE ShutdownFrom(k, failing, i + 1,
                 [run EXCEPT !.attempted = Append(@, p)])

\* otelkit.go:795-825: the providers shut down, the errors collected, and
\* the value returned, when the providers in `failing` fail to shut down
ShutdownResult(k, failing) ==
  LET run == ShutdownFrom(k, failing, 1, [attempted |-> <<>>, errs |-> <<>>])
  IN [failing |-> failing, attempted |-> run.attempted, errs |-> run.errs,
      value |-> IF Len(run.errs) > 0 THEN CombinedShutdownError(run.errs)
                ELSE Nil]

\* a provider handle: the call of New that created it (0 for the call that
\* built the Kit of the state, k for the k-th call recorded in
\* constructions) and whether its Shutdown has been called
ProviderOf(owner) == [owner |-> owner, set |-> TRUE, shutdown |-> FALSE]

\* the otel API's built-in default while nothing has been registered
DefaultProvider == [owner |-> 0, set |-> FALSE, shutdown |-> FALSE]

\* a registered provider after Shutdown of the Kit has visited `attempted`
AfterShutdown(provider, p, attempted) ==
  IF provider.set /\ provider.owner = 0
       /\ \E i \in 1..Len(attempted) : attempted[i] = p
  THEN [provider EXCEPT !.shutdown = TRUE]
  ELSE provider

\* Shutdown drops the handles of the providers it has shut down
KitAfterShutdownCleared(k) ==
  [k EXCEPT !.tracerProvider = FALSE, !.meterProvider = FALSE,
            !.loggerProvider = FALSE]

\* Shutdown writes no field of the Kit (otelkit.go:795-825 has no
\* assignment to o)
KitAfterShutdown(k) == k

Shutdown(failing) ==
  /\ Len(shutdowns) < MaxShutdowns
  /\ shutdowns' = Append(shutdowns, ShutdownResult(kit, failing))
  /\ globalTracerProvider' =
       AfterShutdown(globalTracerProvider, "tracer",
                     ShutdownResult(kit, failing).attempted)
  /\ globalMeterProvider' =
       AfterShutdown(globalMeterProvider, "meter",
                     ShutdownResult(kit, failing).attempted)
  /\ kit' = KitAfterShutdown(kit)
  /\ UNCHANGED <<wrappers, constructions, resolutions, logCalls, spans,
                 stack, ret, panic, telemetry>>

\* ------------------------------------------------------- construction
\* otelkit.go:588-614: the ExporterType constants; "" is the zero value of
\* the field and "bogus" stands for any other string
ExporterJaeger == "jaeger"
ExporterOTLP == "otlp"
ExporterStdout == "stdout"
ExporterPrometheus == "prometheus"
ExporterNone == "none"
ExporterInputs == {"", ExporterJaeger, ExporterOTLP, ExporterStdout,
                   ExporterPrometheus, ExporterNone, "bogus"}

\* an explicit configuration as a caller writes it: a string field left out
\* of the literal is "", a flag left out is FALSE, LogLevel left out is 0
ExplicitConfigs ==
  [ServiceName : {"", "custom-service"},
   ExporterType : ExporterInputs,
   EnableMetrics : BOOLEAN,
   EnableLogs : BOOLEAN,
   MetricsExporterType : ExporterInputs,
   LogsExporterType : ExporterInputs,
   LogLevel : {LevelInfo}]

Errorf(msg) == [by |-> 0, msg |-> msg]

\* otelkit.go:1254-1278, the error of createTraceExporter
TraceExporterError(config) ==
  IF config.ExporterType \in {ExporterJaeger, ExporterOTLP, ExporterStdout,
                              ExporterNone}
  THEN Nil
  ELSE Errorf("unsupported trace exporter type: " \o config.ExporterType)

\* otelkit.go:1281-1319, the error of createMetricsExporter
MetricsExporterError(config) ==
  IF config.MetricsExporterType \in {ExporterOTLP, ExporterPrometheus,
                                     ExporterStdout, ExporterNone}
  THEN Nil
  ELSE Errorf("unsupported metrics exporter type: "
                \o config.MetricsExporterType)

\* otelkit.go:1322-1348, the error of createLogsExporter
LogsExporterError(config) ==
  IF config.LogsExporterType \in {ExporterOTLP, ExporterStdout, ExporterNone}
  THEN Nil
  ELSE Errorf("unsupported logs exporter type: " \o config.LogsExporterType)

\* fmt.Errorf(prefix + ": %w", err)
Wrapf(prefix, err) == Errorf(prefix \o ": " \o ErrorMsg(err))

\* only the trace exporter selection is examined
NewErrorTracingOnly(config) ==
  IF TraceExporterError(config) # Nil
  THEN Wrapf("failed to initialize tracing",
             Wrapf("failed to create trace exporter", TraceExporterError(config)))
  ELSE Nil

\* otelkit.go:753-771: tracing always; metrics and logs only when enabled
NewError(config) ==
  IF TraceExporterError(config) # Nil
  THEN Wrapf("failed to initialize tracing",
             Wrapf("failed to create trace exporter", TraceExporterError(config)))
  ELSE IF config.EnableMetrics /\ MetricsExporterError(config) # Nil
  THEN Wrapf("failed to initialize metrics",
             Wrapf("failed to create metrics exporter",
                   MetricsExporterError(config)))
  ELSE IF config.EnableLogs /\ LogsExporterError(config) # Nil
  THEN Wrapf("failed to initialize logging",
             Wrapf("failed to create logs exporter", LogsExporterError(config)))
  ELSE Nil

\* otelkit.go:742-778: the pair New returns; kit is <<>> for a nil *OTelKit
NewResult(config) ==
  [config |-> config,
   kit |-> IF NewError(config) = Nil THEN <<New(config)>> ELSE <<>>,
   err |-> NewError(config)]

\* otelkit.go:1369-1393: initTracing reaches otel.SetTracerProvider
RegistersTracer(config) == TraceExporterError(config) = Nil

\* otelkit.go:758-762, 1408-1430: initMetrics runs after initTracing
\* succeeded, when metrics are enabled, and reaches otel.SetMeterProvider
RegistersMeter(config) ==
  /\ RegistersTracer(config)
  /\ config.EnableMetrics
  /\ MetricsExporterError(config) = Nil

\* a failing New puts back what was registered before the call
GlobalAfterNewRestoring(current, config, registers, owner) ==
  IF registers /\ NewError(config) = Nil THEN ProviderOf(owner) ELSE current

\* otelkit.go:742-778: no failure path of New undoes a registration
GlobalAfterNew(current, config, registers, owner) ==
  IF registers THEN ProviderOf(owner) ELSE current

Construct(config) ==
  /\ Len(constructions) < MaxConstructions
  /\ constructions' = Append(constructions, NewResult(config))
  /\ globalTracerProvider' =
       GlobalAfterNew(globalTracerProvider, config, RegistersTracer(config),
                      Len(constructions) + 1)
  /\ globalMeterProvider' =
       GlobalAfterNew(globalMeterProvider, config, RegistersMeter(config),
                      Len(constructions) + 1)
  /\ UNCHANGED <<kit, wrappers, shutdowns, resolutions, logCalls, spans,
                 stack, ret, panic, telemetry>>

\* ------------------------------------------------------ DefaultConfig
\* the process environment: the value of each variable, "" when it is not
\* set (os.Getenv does not tell the two apart)
Environments ==
  [OTEL_SERVICE_NAME : {"", "orders"},
   OTEL_EXPORTER_TYPE : {"", ExporterNone},
   OTEL_ENABLE_METRICS : {"", "true", "false"},
   OTEL_ENABLE_LOGS : {"", "false"},
   OTEL_METRICS_EXPORTER : {"", ExporterOTLP},
   OTEL_LOGS_EXPORTER : {"", ExporterNone},
   OTEL_PROMETHEUS_PORT : {"", "2112"},
   OTEL_LOG_LEVEL : {"", "debug", "info", "warn", "error", "verbose"},
   OTEL_LOG_FILE_PATH : {"", "/var/log/app.log"}]

\* otelkit.go:1361-1366
getEnvOrDefault(value, defaultValue) ==
  IF value # "" THEN value ELSE defaultValue

\* otelkit.go:684-692
LogLevelFromEnv(value) ==
  LET name == getEnvOrDefault(value, "info")
  IN CASE name = "debug" -> LevelDebug
       [] name = "warn" -> LevelWarn
       [] name = "error" -> LevelError
       [] OTHER -> LevelInfo

\* otelkit.go:708
DefaultPrometheusPort == 9090

\* otelkit.go:683-711
DefaultConfigFrom(env) ==
  [ServiceName |-> getEnvOrDefault(env.OTEL_SERVICE_NAME, "unknown-service"),
   ExporterType |-> getEnvOrDefault(env.OTEL_EXPORTER_TYPE, ExporterStdout),
   EnableMetrics |-> getEnvOrDefault(env.OTEL_ENABLE_METRICS, "true") = "true",
   EnableLogs |-> getEnvOrDefault(env.OTEL_ENABLE_LOGS, "true") = "true",
   MetricsExporterType |->
     getEnvOrDefault(env.OTEL_METRICS_EXPORTER, ExporterPrometheus),
   LogsExporterType |-> getEnvOrDefault(env.OTEL_LOGS_EXPORTER, ExporterStdout),
   PrometheusPort |-> DefaultPrometheusPort,
   LogLevel |-> LogLevelFromEnv(env.OTEL_LOG_LEVEL),
   LogFilePath |-> getEnvOrDefault(env.OTEL_LOG_FILE_PATH, "")]

ReadDefaultConfig(env) ==
  /\ Len(resolutions) < MaxResolutions
  /\ resolutions' = Append(resolutions,
                           [env |-> env, config |-> DefaultConfigFrom(env)])
  /\ UNCHANGED <<kit, wrappers, shutdowns, constructions, globals, logCalls,
                 spans, stack, ret, panic, telemetry>>

\* ----------------------------------------------------- specifications
Fresh ==
  /\ spans = <<>>
  /\ stack = [g \in Procs |-> <<>>]
  /\ ret = [g \in Procs |-> NoRet]
  /\ panic = [g \in Procs |-> NoPanic]
  /\ localSink = EmptyBag
  /\ exported = EmptyBag
  /\ httpRequestsTotal = EmptyBag
  /\ httpRequestDuration = EmptyBag
  /\ activeSpansGauge = 0
  /\ businessOpsCounter = EmptyBag
  /\ shutdowns = <<>>
  /\ constructions = <<>>
  /\ resolutions = <<>>
  /\ wret = [g \in Procs |-> NoWrapperRet]
  /\ clock = 0
  /\ globalTracerProvider = ProviderOf(0)
  /\ globalMeterProvider =
       IF kit.meterProvider THEN ProviderOf(0) ELSE DefaultProvider
  /\ logCalls = <<>>

\* The middleware serving the requests of one connection, one after the
\* other, on a Kit of any configuration; a handler writes its response and
\* may record an error on the request span.
HTTPProcs == {1}

InitHTTP ==
  /\ kit \in {New(c) : c \in Configs}
  /\ Fresh

NextHTTP ==
  \E g \in HTTPProcs :
    \/ \E method \in Methods : HTTPMiddleware(g, method, PathOf(g))
    \/ HTTPIncrement(g)
    \/ HTTPLogStart(g)
    \/ \E code \in StatusCodes : HandlerWriteHeader(g, code)
    \/ HandlerWrite(g)
    \/ HandlerReturn(g)
    \/ BodyPanic(g)
    \/ \E ctx \in 0..MaxSpans, err \in {Nil} \cup Errors(g) :
         RecordError(g, ctx, err)
    \/ HTTPFinalizeSpan(g)
    \/ HTTPRecordMetrics(g)
    \/ HTTPCompletionLog(g)
    \/ HTTPErrorLog(g)
    \/ HTTPDeferredDecrement(g)
    \/ HTTPDeferredEnd(g)

SpecHTTP == InitHTTP /\ [][NextHTTP]_vars

\* Concurrent requests through the middleware of one shared Kit, with or
\* without metrics and logs; a handler writes a status, returns or panics.
ConcurrentStatusCodes == {200, 500}

InitConcurrentHTTP ==
  /\ kit \in {New(c) : c \in {d \in Configs : d.LogLevel = LevelInfo}}
  /\ Fresh

NextConcurrentHTTP ==
  \E g \in Procs :
    \/ HTTPMiddleware(g, "GET", PathOf(g))
    \/ HTTPIncrement(g)
    \/ HTTPLogStart(g)
    \/ \E code \in ConcurrentStatusCodes : HandlerWriteHeader(g, code)
    \/ HandlerReturn(g)
    \/ BodyPanic(g)
    \/ HTTPFinalizeSpan(g)
    \/ HTTPRecordMetrics(g)
    \/ HTTPCompletionLog(g)
    \/ HTTPErrorLog(g)
    \/ HTTPDeferredDecrement(g)
    \/ HTTPDeferredEnd(g)

SpecConcurrentHTTP == InitConcurrentHTTP /\ [][NextConcurrentHTTP]_vars

\* Shutdown called on a Kit of any configuration, any subset of the
\* providers failing to shut down.
InitShutdown ==
  /\ kit \in {New(c) : c \in Configs}
  /\ Fresh

NextShutdown == \E failing \in SUBSET ProviderNames : Shutdown(failing)

SpecShutdown == InitShutdown /\ [][NextShutdown]_vars

\* Concurrent traced operations on the Kit of the default configuration.
Init ==
  /\ kit = New(DefaultConfig)
  /\ Fresh

Next ==
  \E g \in Procs :
    \/ \E ctx \in 0..MaxSpans : TraceFunction(g, ctx, FnName(g), {ArgAttr(g)})
    \/ \E err \in {Nil} \cup Errors(g) : BodyReturn(g, err)
    \/ BodyPanic(g)
    \/ TraceFunctionAfterBody(g)
    \/ TraceFunctionDeferredEnd(g)
    \/ \E ctx \in 0..MaxSpans : AddEvent(g, ctx, "test_event", {WorkerAttr(g)})
    \/ \E ctx \in 0..MaxSpans : SetAttributes(g, ctx, {WorkerAttr(g)})
    \/ \E ctx \in 0..MaxSpans, err \in {Nil} \cup Errors(g) :
         RecordError(g, ctx, err)

Spec == Init /\ [][Next]_vars

\* The convenience wrappers are called, and nested in one another's bodies,
\* by one goroutine on the Kit of the default configuration.
WrapperProcs == {1}
CondName(condition) == IF condition THEN "traced.op" ELSE "untraced.op"

\* what a body does besides calling a wrapper, and how TraceFunction goes on
BodyStep(g) ==
  \/ \E err \in {Nil} \cup Errors(g) : BodyReturn(g, err)
  \/ BodyPanic(g)
  \/ TraceFunctionAfterBody(g)
  \/ TraceFunctionDeferredEnd(g)
  \/ WrapperUnwind(g)

NextConditional ==
  \E g \in WrapperProcs :
    \/ \E ctx \in 0..MaxSpans, condition \in BOOLEAN :
         ConditionalTrace(g, ctx, condition, CondName(condition))
    \/ \E err \in {Nil} \cup Errors(g) : DirectBodyReturn(g, err)
    \/ ThinWrapperReturn(g)
    \/ \E ctx \in 0..MaxSpans, err \in {Nil} \cup Errors(g) :
         RecordError(g, ctx, err)
    \/ BodyStep(g)

SpecConditional == Init /\ [][NextConditional]_vars

\* TimedOperation at top level and inside traced functions, while time passes
NextTimed ==
  \/ Tick
  \/ \E g \in WrapperProcs :
       \/ \E ctx \in 0..MaxSpans : TimedOperation(g, ctx, "timed.op")
       \/ TimedOperationCall(g)
       \/ TimedOperationAfter(g)
       \/ \E ctx \in 0..MaxSpans : TraceFunction(g, ctx, FnName(g), {ArgAttr(g)})
       \/ BodySleep(g)
       \/ BodyStep(g)

SpecTimed == Init /\ [][NextTimed]_vars

\* the four wrappers that fix a span name and attributes
NextTraced ==
  \E g \in WrapperProcs :
    \/ \E ctx \in 0..MaxSpans : CacheOperation(g, ctx, "get", "user:1")
    \/ \E ctx \in 0..MaxSpans : ExternalServiceCall(g, ctx, "billing", "charge")
    \/ \E ctx \in 0..MaxSpans : BatchOperation(g, ctx, "send_emails", 3)
    \/ \E ctx \in 0..MaxSpans : DatabaseOperation(g, ctx, "select", "users")
    \/ DatabaseOperationAfter(g)
    \/ ThinWrapperReturn(g)
    \/ BodyStep(g)

SpecTraced == Init /\ [][NextTraced]_vars

\* One goroutine calls the Log operations at top level and inside traced
\* functions, on a Kit of any configuration.
LogProcs == {1}
LogAttrSets(g) == {{}, {ArgAttr(g)}}

InitLogs ==
  /\ kit \in {New(c) : c \in Configs}
  /\ Fresh

NextLogs ==
  \E g \in LogProcs :
    \/ \E ctx \in 0..MaxSpans : TraceFunction(g, ctx, FnName(g), {ArgAttr(g)})
    \/ BodyReturn(g, Nil)
    \/ TraceFunctionAfterBody(g)
    \/ TraceFunctionDeferredEnd(g)
    \/ \E ctx \in 0..MaxSpans, attrs \in LogAttrSets(g) :
         \/ CallLogInfo(g, ctx, "note", attrs)
         \/ CallLogWarn(g, ctx, "note", attrs)
         \/ CallLogDebug(g, ctx, "note", attrs)
         \/ \E err \in {Nil} \cup Errors(g) :
              CallLogError(g, ctx, "note", err, attrs)

SpecLogs == InitLogs /\ [][NextLogs]_vars

\* The facade shared by concurrent callers while the process shuts the Kit
\* down: goroutine 1 calls a wrapper, annotates spans, logs and counts;
\* goroutine 2 serves a request; the Kit has the default configuration.
NextFacade ==
  \/ Shutdown({})
  \/ \E ctx \in 0..MaxSpans :
       \/ CacheOperation(1, ctx, "get", "user:1")
       \/ AddEvent(1, ctx, "test_event", {WorkerAttr(1)})
       \/ SetAttributes(1, ctx, {WorkerAttr(1)})
       \/ \E err \in Errors(1) : RecordError(1, ctx, err)
       \/ CallLogWarn(1, ctx, "note", {})
       \/ CallRecordMetric(1, ctx, "order_processed", 1, {WorkerAttr(1)})
  \/ BodyReturn(1, Nil)
  \/ TraceFunctionAfterBody(1)
  \/ TraceFunctionDeferredEnd(1)
  \/ ThinWrapperReturn(1)
  \/ HTTPMiddleware(2, "GET", PathOf(2))
  \/ HTTPIncrement(2)
  \/ HTTPLogStart(2)
  \/ HandlerWriteHeader(2, 500)
  \/ HandlerReturn(2)
  \/ HTTPFinalizeSpan(2)
  \/ HTTPRecordMetrics(2)
  \/ HTTPCompletionLog(2)
  \/ HTTPErrorLog(2)
  \/ HTTPDeferredDecrement(2)
  \/ HTTPDeferredEnd(2)

SpecFacade == Init /\ [][NextFacade]_vars

\* New called with an explicit configuration in a process whose Kit has
\* registered its providers, and Shutdown called on that Kit.
ShutdownFailures == {{}, {"tracer"}}

NextGlobals ==
  \/ \E config \in ExplicitConfigs : Construct(config)
  \/ \E failing \in ShutdownFailures : Shutdown(failing)

SpecGlobals == Init /\ [][NextGlobals]_vars

\* DefaultConfig called in a process environment.
NextDefaults == \E env \in Environments : ReadDefaultConfig(env)

SpecDefaults == Init /\ [][NextDefaults]_vars

\* New called with an explicit configuration.
NextConstruct == \E config \in ExplicitConfigs : Construct(config)

SpecConstruct == Init /\ [][NextConstruct]_vars


\* ------------------------------------------------------------- claims
TFSpans == {i \in 1..Len(spans) : spans[i].name \in FunctionNames}

Live(i) == \E g \in Procs : \E k \in 1..Len(stack[g]) : stack[g][k].span = i

HasException(s, err) ==
  \E k \in 1..Len(s.events) :
    s.events[k].name = "exception" /\ s.events[k].err = err

HasAnyException(s) ==
  \E k \in 1..Len(s.events) : s.events[k].name = "exception"

ErrorMarked(s, err) ==
  /\ s.status = "Error"
  /\ s.desc = ErrorMsg(err)
  /\ HasException(s, err)

\* C1: the value TraceFunction returns is the very value its body returned,
\* the same error (identity included) or nil, whatever the body did to spans.
C1_ReturnsBodyError ==
  \A g \in Procs :
    ret[g].op = "TraceFunction" => ret[g].value = ret[g].body

C1_Witness ==
  \E g \in Procs :
    /\ ret[g].op = "TraceFunction"
    /\ ret[g].value \in Errors(g)
    /\ Len(spans[ret[g].span].events) > 1

\* C2: a span started by TraceFunction has been ended zero times while its
\* invocation is on the stack and exactly once as soon as the invocation has
\* left it, whether the body returned nil, returned an error or panicked.
C2_EndedExactlyOnce ==
  \A i \in TFSpans : spans[i].endCount = IF Live(i) THEN 0 ELSE 1

C2_Witness ==
  \E g \in Procs, h \in Procs :
    /\ panic[g].kind = "user"
    /\ stack[g] = <<>>
    /\ ret[h].op = "TraceFunction"
    /\ ret[h].value # Nil
    /\ \A i \in TFSpans : spans[i].endCount = 1
    /\ Len(spans) = MaxSpans

C4_NilBodyStatusUnset ==
  \A g \in Procs :
    (ret[g].op = "TraceFunction" /\ ret[g].body = Nil)
      => spans[ret[g].span].status = "Unset"

\* C4 as amended: a body that returned nil leaves the span's status unset
\* unless RecordError was called on that span while it was live, in which case
\* the status is error; the status is never ok.
C4_NilBodyStatusUnsetUnlessRecordError ==
  \A g \in Procs :
    (ret[g].op = "TraceFunction" /\ ret[g].body = Nil)
      => LET s == spans[ret[g].span]
         IN /\ s.status # "Ok"
            /\ s.status = "Unset" <=> ~HasAnyException(s)

C4_Witness ==
  \E g \in Procs :
    /\ ret[g].op = "TraceFunction"
    /\ ret[g].body = Nil
    /\ spans[ret[g].span].status = "Unset"
    /\ Len(spans[ret[g].span].events) > 0
    /\ WorkerAttr(g) \in spans[ret[g].span].attrs

FacadeOps == {"TraceFunction", "HTTPMiddleware", "LogInfo", "LogWarn",
              "LogError", "LogDebug", "RecordMetric"}

\* C5: on a Kit that New returned, no facade operation panics of its own:
\* a goroutine panics only where the body or handler panicked.
C5_FacadeNeverPanics ==
  \A g \in Procs :
    panic[g].kind = "nil dereference" => panic[g].op \notin FacadeOps

\* C6: AddEvent, SetAttributes and RecordError on a context without a span
\* change no span and do not panic, for every argument.
C6_NoSpanIsNoOp ==
  [][\A g \in Procs :
       (\/ AddEvent(g, NoSpan, "test_event", {WorkerAttr(g)})
        \/ SetAttributes(g, NoSpan, {WorkerAttr(g)})
        \/ \E err \in {Nil} \cup Errors(g) : RecordError(g, NoSpan, err))
       => (spans' = spans /\ panic' = panic)]_vars

OwnerOf(s) == CHOOSE g \in Procs : s.name = FnName(g)

\* C7: under any interleaving, a span of a TraceFunction invocation carries
\* only attributes, events and errors of the goroutine that made the
\* invocation, an error status only from one of that goroutine's errors, and
\* has been ended at most once, exactly once when the invocation is over.
C7_NoCrossContamination ==
  \A i \in TFSpans :
    LET s == spans[i]
        g == OwnerOf(s)
    IN /\ \A a \in s.attrs : a.val = g
       /\ \A k \in 1..Len(s.events) :
            /\ s.events[k].attrs \subseteq {WorkerAttr(g)}
            /\ s.events[k].err \in {Nil} \cup Errors(g)
       /\ s.status = "Error" =>
            \E e \in Errors(g) : HasException(s, e) /\ s.desc = ErrorMsg(e)
       /\ s.endCount <= 1
       /\ ~Live(i) => s.endCount = 1

C7_Witness ==
  \E g \in Procs, h \in Procs :
    /\ g # h
    /\ stack[g] # <<>>
    /\ stack[h] # <<>>
    /\ Top(g).pc = "body"
    /\ Top(h).pc = "body"
    /\ WorkerAttr(g) \in spans[Top(g).span].attrs
    /\ WorkerAttr(h) \in spans[Top(h).span].attrs
    /\ spans[Top(g).span].status = "Error"
    /\ spans[Top(h).span].status = "Unset"

\* the handler of g's request has returned
HandlerReturned(g) ==
  /\ stack[g] # <<>>
  /\ Top(g).op = "HTTPMiddleware"
  /\ \/ Top(g).pc \in {"finalize", "metrics", "completionLog", "errorLog"}
     \/ /\ Top(g).pc \in {"deferDecr", "deferEnd"}
        /\ \/ Running(g)
           \/ /\ panic[g].kind = "nil dereference"
              /\ panic[g].op = "HTTPMiddleware"

\* the status the response went out with
FirstWritten(f) == IF f.wire = 0 THEN 200 ELSE f.wire

\* C8: once the handler has returned, the status code the middleware holds
\* for the request is the first one written, 200 if none was.
C8_RecordsFirstStatus ==
  \A g \in Procs :
    HandlerReturned(g) => Top(g).statusCode = FirstWritten(Top(g))

\* C9: after the handler returned and the response was put on the span, the
\* span carries http.status_code = the recorded status; for a status >= 400
\* its status is error, described by the status text; for a status < 400 the
\* middleware set no status: an error status is the handler's RecordError.
C9_SpanStatusFromResponse ==
  \A g \in Procs :
    (HandlerReturned(g) /\ Top(g).pc # "finalize") =>
      LET f == Top(g)
          s == spans[f.span]
      IN /\ [key |-> "http.status_code", val |-> f.statusCode] \in s.attrs
         /\ \A a \in s.attrs :
              a.key = "http.status_code" => a.val = f.statusCode
         /\ IF f.statusCode >= 400
            THEN s.status = "Error" /\ s.desc = StatusText(f.statusCode)
            ELSE s.status = "Error" =>
                   \E e \in AllErrors : HasException(s, e) /\ s.desc = ErrorMsg(e)

C9_Witness ==
  \E g \in Procs :
    /\ HandlerReturned(g)
    /\ Top(g).pc = "metrics"
    /\ Top(g).statusCode = 400
    /\ Top(g).wire = 400
    /\ spans[Top(g).span].desc = "Bad Request"
    /\ HasAnyException(spans[Top(g).span])

\* the requests served to the end with a method, path and recorded status
Served(method, path, code) ==
  {i \in 1..Len(spans) :
     /\ spans[i].name = method \o " " \o path
     /\ [key |-> "http.status_code", val |-> code] \in spans[i].attrs
     /\ spans[i].endCount = 1}

CompletionRecord(method, path, code) ==
  [level |-> CompletionLevel(code), msg |-> "HTTP request completed",
   attrs |-> {[key |-> "method", val |-> method],
              [key |-> "path", val |-> path],
              [key |-> "status_code", val |-> code],
              [key |-> "status_text", val |-> StatusText(code)]}]

FailedRecord(path, code) ==
  [level |-> LevelError, msg |-> "HTTP request failed",
   attrs |-> {[key |-> "status_code", val |-> code],
              [key |-> "path", val |-> path],
              [key |-> "error", val |-> "<nil>"]}]

SeverityOf(code) ==
  IF code >= 500 THEN LevelError ELSE IF code >= 400 THEN LevelWarn
  ELSE LevelInfo

\* C10: when no request is in flight, every request whose handler returned
\* has exactly one completion record, of severity info below 400, warn for
\* 400-499 and error from 500 (where the sink's level admits that severity),
\* and exactly one "failed" record with a nil error exactly when its status
\* is >= 400.
C10_CompletionLogs ==
  (\A g \in Procs : stack[g] = <<>>) =>
    \A g \in Procs, code \in StatusCodes :
      /\ \A method \in Methods :
           /\ CompletionLevel(code) = SeverityOf(code)
           /\ SeverityOf(code) >= kit.config.LogLevel =>
                CopiesIn(CompletionRecord(method, PathOf(g), code), localSink)
                  = Cardinality(Served(method, PathOf(g), code))
      /\ CopiesIn(FailedRecord(PathOf(g), code), localSink)
           = IF code >= 400
             THEN Cardinality(UNION {Served(m, PathOf(g), code) : m \in Methods})
             ELSE 0

\* the requests between the middleware's increment and its deferred decrement
Counted ==
  {g \in Procs :
     /\ stack[g] # <<>>
     /\ stack[g][1].op = "HTTPMiddleware"
     /\ stack[g][1].pc \in {"logStart", "handler", "finalize", "metrics",
                            "completionLog", "errorLog", "deferDecr"}}

\* C11: on a Kit with the gauge instrument, under any interleaving of
\* requests, the active-operation gauge equals the number of requests that
\* have passed the middleware's increment and not yet its deferred decrement,
\* whether the handler returned or panicked: never negative, and 0 when no
\* request is in flight.
C11_GaugeCountsRequestsInFlight ==
  kit.activeSpansGauge =>
    /\ activeSpansGauge = Cardinality(Counted)
    /\ activeSpansGauge >= 0
    /\ (\A g \in Procs : stack[g] = <<>>) => activeSpansGauge = 0

C11_Witness ==
  \E g \in Procs, h \in Procs :
    /\ kit.activeSpansGauge
    /\ panic[g].kind = "user"
    /\ panic[g].op = "HTTPMiddleware"
    /\ stack[g] = <<>>
    /\ h \in Counted
    /\ Top(h).pc = "handler"
    /\ activeSpansGauge = 1

\* the requests served to the end with a method and recorded status
ServedAnyPath(method, code) ==
  UNION {Served(method, PathOf(g), code) : g \in Procs}

MetricTags(method, code) ==
  {[key |-> "method", val |-> method],
   [key |-> "status_code", val |-> Itoa(code)]}

\* C12: when no request is in flight, the request counter holds exactly one
\* increment and the duration histogram exactly one observation per request
\* whose handler returned, tagged with the request's method and the decimal
\* text of the recorded status; with metrics disabled both stay empty while
\* the requests are served and their spans completed all the same.
C12_HTTPMetricsPerRequest ==
  (\A g \in Procs : stack[g] = <<>>) =>
    \A method \in Methods, code \in StatusCodes :
      LET n == IF kit.config.EnableMetrics
               THEN Cardinality(ServedAnyPath(method, code)) ELSE 0
      IN /\ CopiesIn(MetricTags(method, code), httpRequestsTotal) = n
         /\ CopiesIn(MetricTags(method, code), httpRequestDuration) = n
         /\ BagCardinality(httpRequestsTotal) <= Len(spans)
         /\ BagCardinality(httpRequestDuration) <= Len(spans)

C12_Witness ==
  /\ \A g \in Procs : stack[g] = <<>>
  /\ kit.config.EnableMetrics
  /\ CopiesIn(MetricTags("GET", 499), httpRequestsTotal) = 1
  /\ CopiesIn(MetricTags("POST", 200), httpRequestDuration) = 1
  /\ Cardinality(ServedAnyPath("POST", 200)) = 1

C12_WitnessMetricsDisabled ==
  /\ \A g \in Procs : stack[g] = <<>>
  /\ ~kit.config.EnableMetrics
  /\ Cardinality(ServedAnyPath("GET", 500)) = 2

\* where a provider stands in the order trace, metric, log
Rank(p) == CHOOSE i \in 1..Len(Providers) : Providers[i] = p

\* C13: every call of Shutdown shuts down each initialized provider exactly
\* once, in the order trace, metric, log, whether or not an earlier one
\* failed, and no provider that was never initialized; it returns nil exactly
\* when none of them failed, and otherwise one error whose text lists, in
\* that order, the wrapped failure of every provider that failed.
C13_ShutdownVisitsAllCollectsAll ==
  \A n \in 1..Len(shutdowns) :
    LET c == shutdowns[n]
        failed == {p \in ProviderNames : Initialized(kit, p) /\ p \in c.failing}
    IN /\ \A p \in ProviderNames :
            Cardinality({i \in 1..Len(c.attempted) : c.attempted[i] = p})
              = IF Initialized(kit, p) THEN 1 ELSE 0
       /\ \A i \in 1..Len(c.attempted), j \in 1..Len(c.attempted) :
            i < j => Rank(c.attempted[i]) < Rank(c.attempted[j])
       /\ c.value = Nil <=> failed = {}
       /\ Len(c.errs) = Cardinality(failed)
       /\ \A p \in failed :
            \E i \in 1..Len(c.errs) :
              c.errs[i].msg = p \o " provider shutdown: " \o p \o " flush failed"
       /\ failed # {} =>
            c.value.msg = "shutdown errors: [" \o JoinErrors(c.errs) \o "]"

C13_Witness ==
  \E n \in 1..Len(shutdowns) :
    /\ kit.meterProvider
    /\ kit.loggerProvider
    /\ shutdowns[n].failing = {"tracer", "logger"}
    /\ shutdowns[n].attempted = Providers
    /\ shutdowns[n].value.msg =
         "shutdown errors: [tracer provider shutdown: tracer flush failed logger provider shutdown: logger flush failed]"

TraceExporters == {ExporterJaeger, ExporterOTLP, ExporterStdout, ExporterNone}
MetricsExporters == {ExporterOTLP, ExporterPrometheus, ExporterStdout,
                     ExporterNone}
LogsExporters == {ExporterOTLP, ExporterStdout, ExporterNone}

C15_UnsetFieldsResolved ==
  \A n \in 1..Len(constructions) :
    LET c == constructions[n]
        asked == c.config
    IN /\ (/\ asked.ExporterType \in TraceExporters \cup {""}
           /\ asked.MetricsExporterType \in MetricsExporters \cup {""}
           /\ asked.LogsExporterType \in LogsExporters \cup {""})
            => c.err = Nil
       /\ c.err = Nil =>
            /\ c.kit[1].config.ServiceName # ""
            /\ c.kit[1].config.ExporterType # ""
            /\ c.kit[1].config.MetricsExporterType # ""
            /\ c.kit[1].config.LogsExporterType # ""

\* the value a variable's text stands for
PortOf(text) == CASE text = "2112" -> 2112 [] OTHER -> 0 - 1
LevelOf(text) ==
  CASE text = "debug" -> LevelDebug [] text = "info" -> LevelInfo
    [] text = "warn" -> LevelWarn [] text = "error" -> LevelError

\* C16: DefaultConfig gives every field with a documented environment
\* variable that variable's value when it is set and non-empty and the
\* documented default otherwise.
C16_DefaultsFromEnvironment ==
  \A n \in 1..Len(resolutions) :
    LET env == resolutions[n].env
        config == resolutions[n].config
        Or(value, default) == IF value = "" THEN default ELSE value
    IN /\ config.ServiceName = Or(env.OTEL_SERVICE_NAME, "unknown-service")
       /\ config.ExporterType = Or(env.OTEL_EXPORTER_TYPE, "stdout")
       /\ config.EnableMetrics = (Or(env.OTEL_ENABLE_METRICS, "true") = "true")
       /\ config.EnableLogs = (Or(env.OTEL_ENABLE_LOGS, "true") = "true")
       /\ config.MetricsExporterType = Or(env.OTEL_METRICS_EXPORTER, "prometheus")
       /\ config.LogsExporterType = Or(env.OTEL_LOGS_EXPORTER, "stdout")
       /\ config.LogFilePath = env.OTEL_LOG_FILE_PATH
       /\ env.OTEL_LOG_LEVEL \in {"", "debug", "info", "warn", "error"} =>
            config.LogLevel = LevelOf(Or(env.OTEL_LOG_LEVEL, "info"))
       /\ config.PrometheusPort =
            IF env.OTEL_PROMETHEUS_PORT = "" THEN 9090
            ELSE PortOf(env.OTEL_PROMETHEUS_PORT)

\* C16 without the Prometheus port: every other field follows its variable.
C16_DefaultsFromEnvironmentButPort ==
  \A n \in 1..Len(resolutions) :
    LET env == resolutions[n].env
        config == resolutions[n].config
        Or(value, default) == IF value = "" THEN default ELSE value
    IN /\ config.ServiceName = Or(env.OTEL_SERVICE_NAME, "unknown-service")
       /\ config.ExporterType = Or(env.OTEL_EXPORTER_TYPE, "stdout")
       /\ config.EnableMetrics = (Or(env.OTEL_ENABLE_METRICS, "true") = "true")
       /\ config.EnableLogs = (Or(env.OTEL_ENABLE_LOGS, "true") = "true")
       /\ config.MetricsExporterType = Or(env.OTEL_METRICS_EXPORTER, "prometheus")
       /\ config.LogsExporterType = Or(env.OTEL_LOGS_EXPORTER, "stdout")
       /\ config.LogFilePath = env.OTEL_LOG_FILE_PATH
       /\ env.OTEL_LOG_LEVEL \in {"", "debug", "info", "warn", "error"} =>
            config.LogLevel = LevelOf(Or(env.OTEL_LOG_LEVEL, "info"))
       /\ config.PrometheusPort = 9090

\* C17: ConditionalTrace with a false condition hands its body the caller's
\* context, starts no span and returns the body's result; with a true
\* condition it does what TraceFunction(ctx, spanName, body) does: one span
\* of that name under the caller's context, marked with a non-nil error of
\* the body, ended exactly once, and the body's result returned.
C17_ConditionalTrace ==
  /\ \A i \in 1..Len(spans) : spans[i].name # CondName(FALSE)
  /\ \A g \in Procs :
       /\ \A k \in 1..Len(stack[g]) :
            LET f == stack[g][k]
            IN f.op = "ConditionalTrace" =>
                 IF f.cond
                 THEN f.pc \in {"inner", "deferEnd"}
                 ELSE f.pc \in {"body", "deferEnd"} /\ f.span = f.ctx
       /\ wret[g].op = "ConditionalTrace" =>
            /\ wret[g].value = wret[g].body
            /\ IF wret[g].cond
               THEN /\ wret[g].span # NoSpan
                    /\ LET s == spans[wret[g].span]
                       IN /\ s.name = wret[g].name
                          /\ s.parent = wret[g].ctx
                          /\ s.endCount = 1
                          /\ IF wret[g].body # Nil
                             THEN ErrorMarked(s, wret[g].body)
                             ELSE s.status = "Unset" <=> ~HasAnyException(s)
               ELSE wret[g].span = NoSpan
  /\ \A i \in 1..Len(spans) :
       spans[i].name = CondName(TRUE) =>
         spans[i].endCount = IF Live(i) THEN 0 ELSE 1

C17_Witness ==
  \E g \in Procs :
    /\ wret[g].op = "ConditionalTrace"
    /\ ~wret[g].cond
    /\ wret[g].value \in Errors(g)
    /\ wret[g].ctx # NoSpan
    /\ spans[wret[g].ctx].name = CondName(TRUE)
    /\ Len(spans) = 1

HasDuration(s) == \E a \in s.attrs : a.key = "operation.duration_ms"

\* C18: after TimedOperation(ctx, name, body) returned, the span named
\* <name> that the call created carries operation.duration_ms with the
\* elapsed time, and no span other than one so created carries it.
C18_DurationOnOwnSpan ==
  /\ \A g \in Procs :
       wret[g].op = "TimedOperation" =>
         [key |-> "operation.duration_ms", val |-> wret[g].duration]
           \in spans[wret[g].span].attrs
  /\ \A i \in 1..Len(spans) : HasDuration(spans[i]) => spans[i].name = "timed.op"

\* C18, what the code does instead: the span the call created has ended
\* when the attribute is set; the attribute is set on the span of the
\* caller's context, when that context has a live one.
C18_DurationOnCallerSpan ==
  \A g \in Procs :
    wret[g].op = "TimedOperation" =>
      /\ spans[wret[g].span].endCount = 1
      /\ (wret[g].ctx # NoSpan /\ Live(wret[g].ctx)) =>
           [key |-> "operation.duration_ms", val |-> wret[g].duration]
             \in spans[wret[g].ctx].attrs

\* C20: the duration TimedOperation returns is at least the time its body
\* spent, and the body's error is returned with it unchanged.
C20_DurationCoversBody ==
  \A g \in Procs :
    wret[g].op = "TimedOperation" =>
      /\ wret[g].duration >= wret[g].slept
      /\ wret[g].value = wret[g].body

C20_Witness ==
  \E g \in Procs :
    /\ wret[g].op = "TimedOperation"
    /\ wret[g].slept = 1
    /\ wret[g].duration = 2
    /\ wret[g].value \in Errors(g)

\* the span name and attributes each wrapper is documented to pin, for the
\* arguments the wrappers are called with
PinnedName(op) ==
  CASE op = "DatabaseOperation" -> "db.select"
    [] op = "CacheOperation" -> "cache.get"
    [] op = "ExternalServiceCall" -> "external.billing.charge"
    [] op = "BatchOperation" -> "batch.send_emails"

PinnedAttrs(op) ==
  CASE op = "DatabaseOperation" ->
         {[key |-> "db.operation", val |-> "select"],
          [key |-> "db.table", val |-> "users"],
          [key |-> "db.type", val |-> "unknown"]}
    [] op = "CacheOperation" ->
         {[key |-> "cache.operation", val |-> "get"],
          [key |-> "cache.key", val |-> "user:1"]}
    [] op = "ExternalServiceCall" ->
         {[key |-> "service.name", val |-> "billing"],
          [key |-> "service.operation", val |-> "charge"]}
    [] op = "BatchOperation" ->
         {[key |-> "batch.operation", val |-> "send_emails"],
          [key |-> "batch.item_count", val |-> 3]}

PinningWrappers == {"DatabaseOperation", "CacheOperation",
                    "ExternalServiceCall", "BatchOperation"}

\* C19: a call of DatabaseOperation, CacheOperation, ExternalServiceCall or
\* BatchOperation that returned has created one span, under the caller's
\* context, with the wrapper's span name and exactly its attribute set,
\* marked with the body's non-nil error and ended once, and has returned the
\* body's error unchanged; while a call is in progress its span is live and
\* not ended.
C19_WrappersAreTraceFunction ==
  /\ \A g \in Procs :
       wret[g].op \in PinningWrappers =>
         /\ wret[g].value = wret[g].body
         /\ wret[g].span # NoSpan
         /\ LET s == spans[wret[g].span]
            IN /\ s.name = PinnedName(wret[g].op)
               /\ s.attrs = PinnedAttrs(wret[g].op)
               /\ s.parent = wret[g].ctx
               /\ s.endCount = 1
               /\ IF wret[g].body # Nil
                  THEN ErrorMarked(s, wret[g].body)
                  ELSE s.status = "Unset"
  /\ \A g \in Procs : \A k \in 1..Len(stack[g]) :
       (stack[g][k].op \in PinningWrappers /\ stack[g][k].pc = "inner"
          /\ k < Len(stack[g])) =>
         LET f == stack[g][k + 1]
         IN /\ f.op = "TraceFunction"
            /\ spans[f.span].name = PinnedName(stack[g][k].op)
            /\ spans[f.span].attrs = PinnedAttrs(stack[g][k].op)
            /\ spans[f.span].parent = stack[g][k].ctx
  /\ \A i \in 1..Len(spans) : spans[i].endCount = IF Live(i) THEN 0 ELSE 1

C19_Witness ==
  \E g \in Procs :
    /\ wret[g].op = "DatabaseOperation"
    /\ wret[g].value \in Errors(g)
    /\ wret[g].ctx # NoSpan
    /\ spans[wret[g].ctx].name = "batch.send_emails"
    /\ Live(wret[g].ctx)

\* ------------------------------------------------ the Log operations
LogStep == Len(logCalls') = Len(logCalls) + 1
LastCall == logCalls'[Len(logCalls')]

OpLevel(op) ==
  CASE op = "LogInfo" -> LevelInfo
    [] op = "LogWarn" -> LevelWarn
    [] op = "LogError" -> LevelError
    [] op = "LogDebug" -> LevelDebug

OpSeverity(op) ==
  CASE op = "LogInfo" -> "INFO"
    [] op = "LogWarn" -> "WARN"
    [] op = "LogError" -> "ERROR"
    [] op = "LogDebug" -> "DEBUG"

HasKey(attrs, key) == \E a \in attrs : a.key = key

\* the step added exactly one record to the local sink, of the call's level
\* and message
WroteOne(call) ==
  \E r \in BagToSet(localSink') :
    /\ localSink' = localSink (+) SetToBag({r})
    /\ r.level = OpLevel(call.op)
    /\ r.msg = call.msg
    /\ call.attrs \subseteq r.attrs

\* the step emitted exactly one record, of the call's severity and message,
\* with the span identifiers exactly when the call's context holds a span
EmittedOne(call) ==
  \E e \in BagToSet(exported') :
    /\ exported' = exported (+) SetToBag({e})
    /\ e.severity = OpSeverity(call.op)
    /\ e.body = call.msg
    /\ call.attrs \subseteq e.attrs
    /\ HasKey(e.attrs, "trace_id") <=> call.ctx # NoSpan
    /\ HasKey(e.attrs, "span_id") <=> call.ctx # NoSpan
    /\ call.ctx # NoSpan =>
         [key |-> "span_id", val |-> call.ctx] \in e.attrs

\* C21 as stated: with the log pipeline enabled, every call of LogInfo,
\* LogWarn, LogError or LogDebug writes one record to the local sink and
\* emits exactly one record of the matching severity into the export
\* pipeline, correlated exactly when the context holds a span; no call
\* panics, LogError with a nil error included.
C21_LogsWriteAndEmit ==
  [][LogStep /\ kit.config.EnableLogs =>
       /\ WroteOne(LastCall)
       /\ EmittedOne(LastCall)
       /\ panic' = panic]_vars

\* C21 amended: the record reaches the local sink when the operation's level
\* is at or above the configured minimum level, and the local sink is left
\* alone otherwise; the rest as stated.
C21_LogsWriteAtLevelAndEmit ==
  [][LogStep /\ kit.config.EnableLogs =>
       /\ IF OpLevel(LastCall.op) >= kit.config.LogLevel
          THEN WroteOne(LastCall)
          ELSE localSink' = localSink
       /\ EmittedOne(LastCall)
       /\ panic' = panic]_vars

\* a LogError call with a nil error inside a traced function has been
\* exported with the identifiers of that function's span
C21_Witness ==
  /\ kit.config.EnableLogs
  /\ \E i \in 1..Len(logCalls) :
       /\ logCalls[i].op = "LogError"
       /\ logCalls[i].err = Nil
       /\ logCalls[i].ctx # NoSpan
       /\ \E e \in BagToSet(exported) :
            /\ e.severity = "ERROR"
            /\ [key |-> "span_id", val |-> logCalls[i].ctx] \in e.attrs
            /\ [key |-> "error", val |-> "<nil>"] \in e.attrs
  /\ \E r \in BagToSet(localSink) : r.level = LevelError

\* C22: every record the Kit's structured logger writes to the local sink
\* from inside a traced operation (the context given to the Log operation
\* holds a span) includes the trace ID and the span ID of that span.
C22_LocalRecordsCorrelated ==
  [][LogStep /\ LastCall.ctx # NoSpan /\ localSink' # localSink =>
       \E r \in BagToSet(localSink') :
         /\ localSink' = localSink (+) SetToBag({r})
         /\ HasKey(r.attrs, "trace_id")
         /\ [key |-> "span_id", val |-> LastCall.ctx] \in r.attrs]_vars

\* ------------------------------------------------- the Kit after New
\* C23: no step of a facade operation (TraceFunction and the wrappers,
\* HTTPMiddleware, the Log operations, RecordMetric, AddEvent, SetAttributes,
\* RecordError, Shutdown) writes a field of the Kit: the configuration, the
\* three provider handles and the four metric instruments (and the two
\* loggers) stay as New left them, however the callers interleave.
C23_KitReadOnlyAfterNew ==
  [][/\ kit'.config = kit.config
     /\ kit'.tracerProvider = kit.tracerProvider
     /\ kit'.meterProvider = kit.meterProvider
     /\ kit'.loggerProvider = kit.loggerProvider
     /\ kit'.httpRequestDuration = kit.httpRequestDuration
     /\ kit'.httpRequestsTotal = kit.httpRequestsTotal
     /\ kit'.activeSpansGauge = kit.activeSpansGauge
     /\ kit'.businessOpsCounter = kit.businessOpsCounter
     /\ kit'.otelLogger = kit.otelLogger
     /\ kit'.logger = kit.logger]_vars

\* Shutdown has returned while a request and a traced wrapper were in
\* flight, user code has logged and counted, and the Kit still holds what
\* New gave it
C23_Witness ==
  /\ Len(shutdowns) > 0
  /\ stack[1] # <<>>
  /\ stack[2] # <<>>
  /\ Len(logCalls) > 0
  /\ BagCardinality(businessOpsCounter) > 0
  /\ BagCardinality(httpRequestsTotal) > 0
  /\ kit.tracerProvider /\ kit.meterProvider /\ kit.loggerProvider

\* ------------------------------------------------ Shutdown, repeated
\* the Kit holds a handle of provider p (a method call on a nil handle is
\* the one way Shutdown's own code can panic)
Holds(k, p) ==
  \/ p = "tracer" /\ k.tracerProvider
  \/ p = "meter" /\ k.meterProvider
  \/ p = "logger" /\ k.loggerProvider

\* C24: a second Shutdown on the same Kit returns normally, with an error or
\* without one, whichever providers New initialised: it calls no provider
\* the Kit does not hold, visits the ones it holds again, and no goroutine
\* is left panicking.
C24_SecondShutdownReturns ==
  Len(shutdowns) >= 2 =>
    LET second == shutdowns[2]
    IN /\ \A i \in 1..Len(second.attempted) : Holds(kit, second.attempted[i])
       /\ \A p \in ProviderNames :
            Holds(kit, p) => \E i \in 1..Len(second.attempted) :
                               second.attempted[i] = p
       /\ second.value = Nil <=> second.errs = <<>>
       /\ \A g \in Procs : panic[g] = NoPanic

\* Shutdown has been called twice on a Kit without metrics; the first call
\* succeeded and the second returned an error
C24_Witness ==
  /\ Len(shutdowns) = 2
  /\ ~kit.meterProvider
  /\ shutdowns[1].value = Nil
  /\ shutdowns[2].value # Nil

\* ------------------------------------- TraceFunction and its contexts
\* the invocations of TraceFunction in progress on goroutine g
Invocations(g) ==
  {k \in 1..Len(stack[g]) : stack[g][k].op = "TraceFunction"}

\* while the body of an invocation runs: the context it was given carries
\* the invocation's own span, which is open, is a child of the span of the
\* caller's context (a root when there is none) and already has the
\* attributes passed to TraceFunction
BodyContext(g, k) ==
  LET f == stack[g][k]
  IN /\ f.span \in 1..Len(spans)
     /\ f.span \in Contexts(g)
     /\ f.span # f.ctx
     /\ spans[f.span].parent = f.ctx
     /\ f.pc = "body" => /\ spans[f.span].endCount = 0
                         /\ ArgAttr(g) \in spans[f.span].attrs

\* a step never re-enters a body that has returned, and leaves to every
\* frame that stays on the stack its span and its caller's context
BodyOnceContextsKept(g) ==
  \A k \in 1..Len(stack[g]) :
    k <= Len(stack'[g]) =>
      /\ stack'[g][k].span = stack[g][k].span
      /\ stack'[g][k].ctx = stack[g][k].ctx
      /\ stack[g][k].pc # "body" => stack'[g][k].pc # "body"

\* C25: TraceFunction runs its body exactly once, with a context whose
\* active span is the span it has just started; that span's parent is the
\* span of the caller's context, or none; the attributes passed in are on
\* the span before the body runs; and when TraceFunction has returned the
\* caller's context still carries the span it carried before.
C25_BodyRunsOnceInChildContext ==
  /\ [](\A g \in Procs : \A k \in Invocations(g) : BodyContext(g, k))
  /\ [](\A g \in Procs :
          ret[g].op = "TraceFunction" =>
            /\ spans[ret[g].span].endCount = 1
            /\ ArgAttr(g) \in spans[ret[g].span].attrs)
  /\ [][\A g \in Procs : BodyOnceContextsKept(g)]_vars

\* a traced function called inside the body of another has returned: its
\* span is a child of the caller's span, and the caller's body goes on
\* with the context it had
C25_Witness ==
  \E g \in Procs :
    /\ Len(stack[g]) = 1
    /\ Top(g).pc = "body"
    /\ ret[g].op = "TraceFunction"
    /\ spans[ret[g].span].parent = Top(g).span
    /\ spans[ret[g].span].endCount = 1
    /\ spans[Top(g).span].endCount = 0
    /\ spans[Top(g).span].parent = NoSpan

\* ------------------------------------- the order of the middleware's steps
\* goroutine g's request moves from one place of the middleware to another
\* ("done": the middleware has returned)
Moves(g, from, to) ==
  /\ stack[g] # <<>>
  /\ stack[g][1].op = "HTTPMiddleware"
  /\ stack[g][1].pc = from
  /\ IF to = "done" THEN stack'[g] = <<>>
     ELSE stack'[g] # <<>> /\ stack'[g][1].pc = to

\* the records with message msg that the step added to a bag of log records
NewRecords(before, after, msg) ==
  {r \in BagToSet(after) :
     /\ CopiesIn(r, after) > CopiesIn(r, before)
     /\ IF "msg" \in DOMAIN r THEN r.msg = msg ELSE r.body = msg}

AddedLog(msg) ==
  \/ NewRecords(localSink, localSink', msg) # {}
  \/ NewRecords(exported, exported', msg) # {}

ResponseOnSpan(sps, id) == HasKey(sps[id].attrs, "http.status_code")

\* every effect of the middleware is made by the one step it belongs to
EffectsInPlace(g) ==
  /\ Len(spans') > Len(spans) =>
       stack[g] = <<>> /\ stack'[g] # <<>> /\ stack'[g][1].pc = "incr"
  /\ activeSpansGauge' > activeSpansGauge => Moves(g, "incr", "logStart")
  /\ AddedLog("HTTP request started") => Moves(g, "logStart", "handler")
  /\ (\E i \in 1..Len(spans) :
        ResponseOnSpan(spans', i) /\ ~ResponseOnSpan(spans, i)) =>
       Moves(g, "finalize", "metrics")
  /\ (httpRequestsTotal' # httpRequestsTotal
        \/ httpRequestDuration' # httpRequestDuration) =>
       Moves(g, "metrics", "completionLog")
  /\ AddedLog("HTTP request completed") =>
       Moves(g, "completionLog", "errorLog")
  /\ AddedLog("HTTP request failed") => Moves(g, "errorLog", "deferDecr")
  /\ activeSpansGauge' < activeSpansGauge => Moves(g, "deferDecr", "deferEnd")
  /\ (\E i \in 1..Len(spans) : spans'[i].endCount # spans[i].endCount) =>
       Moves(g, "deferEnd", "done")
  /\ \A i \in 1..Len(spans) : spans[i].endCount > 0 => spans'[i] = spans[i]

\* where the middleware goes next once the handler has returned
AfterPlace(pc) ==
  CASE pc = "finalize" -> "metrics"
    [] pc = "metrics" -> "completionLog"
    [] pc = "completionLog" -> "errorLog"
    [] pc = "errorLog" -> "deferDecr"
    [] pc = "deferDecr" -> "deferEnd"
    [] pc = "deferEnd" -> "done"

\* what the step made at a place has to show, given what New initialised
EffectAt(g, pc) ==
  LET f == stack[g][1]
  IN CASE pc = "finalize" ->
            /\ spans[f.span].endCount = 0
            /\ [key |-> "http.status_code", val |-> f.statusCode]
                 \in spans'[f.span].attrs
       [] pc = "metrics" ->
            kit.httpRequestsTotal =>
              /\ BagCardinality(httpRequestsTotal')
                   = BagCardinality(httpRequestsTotal) + 1
              /\ BagCardinality(httpRequestDuration')
                   = BagCardinality(httpRequestDuration) + 1
       [] pc = "completionLog" ->
            (kit.config.EnableLogs
               /\ CompletionLevel(f.statusCode) >= kit.config.LogLevel) =>
              BagCardinality(localSink') = BagCardinality(localSink) + 1
       [] pc = "errorLog" ->
            (kit.config.EnableLogs /\ f.statusCode >= 400) =>
              BagCardinality(exported') = BagCardinality(exported) + 1
       [] pc = "deferDecr" ->
            kit.activeSpansGauge => activeSpansGauge' = activeSpansGauge - 1
       [] pc = "deferEnd" ->
            spans'[f.span].endCount = spans[f.span].endCount + 1

\* the steps before the handler, and the handler running with the context
\* of the request span
BeforeHandler(g) ==
  /\ Moves(g, "incr", "logStart") =>
       (kit.activeSpansGauge => activeSpansGauge' = activeSpansGauge + 1)
  /\ Moves(g, "logStart", "handler") =>
       (kit.config.EnableLogs =>
          BagCardinality(exported') = BagCardinality(exported) + 1)
  /\ (stack[g] # <<>> /\ stack[g][1].pc = "handler") =>
       /\ stack[g][1].span \in Contexts(g)
       /\ spans[stack[g][1].span].endCount = 0
       /\ ~ResponseOnSpan(spans, stack[g][1].span)

\* once the handler has returned the middleware takes every remaining step,
\* in order, and none of its own steps panics
AfterHandler(g) ==
  (stack[g] # <<>> /\ Running(g)
     /\ stack[g][1].pc \in {"finalize", "metrics", "completionLog",
                            "errorLog", "deferDecr", "deferEnd"}
     /\ stack'[g] # stack[g]) =>
    /\ Moves(g, stack[g][1].pc, AfterPlace(stack[g][1].pc))
    /\ EffectAt(g, stack[g][1].pc)
    /\ panic' = panic

\* C26: in a request whose handler returns the middleware's steps happen in
\* one fixed order, each once: span start, gauge increment, "request
\* started" log, the handler with the span's context, response attributes
\* and status on the span, HTTP metrics, completion log(s), gauge decrement,
\* span end; and nothing is written to the request span after its end.
C26_StepsInFixedOrder ==
  [][\A g \in HTTPProcs :
       EffectsInPlace(g) /\ BeforeHandler(g) /\ AfterHandler(g)]_vars

\* the same on a Kit that has its structured logger
C26_StepsInFixedOrderWithLogger ==
  [][\A g \in HTTPProcs :
       /\ EffectsInPlace(g)
       /\ BeforeHandler(g)
       /\ kit.logger => AfterHandler(g)]_vars

\* ---------------------------------- DatabaseOperation's logs and metric
\* goroutine g enters DatabaseOperation: its frame and, on top of it, the
\* frame of the TraceFunction whose body has not run yet
DbEnters(g) ==
  /\ Len(stack'[g]) = Len(stack[g]) + 2
  /\ stack'[g][Len(stack[g]) + 1].op = "DatabaseOperation"
  /\ stack'[g][Len(stack[g]) + 2].pc = "body"

\* DatabaseOperation returns to its caller after its body returned
DbReturns(g) ==
  /\ stack[g] # <<>>
  /\ Top(g).op = "DatabaseOperation"
  /\ Running(g)
  /\ Len(stack'[g]) = Len(stack[g]) - 1

\* the record carries the identifiers of the context ctx and of no other
CorrelatedWith(e, ctx) ==
  /\ \A a \in e.attrs : a.key = "span_id" => a.val = ctx
  /\ HasKey(e.attrs, "span_id") <=> ctx # NoSpan

\* the step emitted exactly one record, as described, with context ctx
EmittedDbLog(severity, msg, operation, table, ctx) ==
  \E e \in BagToSet(exported') :
    /\ exported' = exported (+) SetToBag({e})
    /\ e.severity = severity
    /\ e.body = msg
    /\ [key |-> "operation", val |-> operation] \in e.attrs
    /\ [key |-> "table", val |-> table] \in e.attrs
    /\ CorrelatedWith(e, ctx)

\* C27: a DatabaseOperation call whose body returns emits one debug
\* "started" log before the body runs and exactly one completion log after
\* it (error level with the body's error when the body failed, debug level
\* otherwise), and increments the business-operation counter exactly once
\* with operation_type=database_operation and success = (body returned
\* nil); logs and metric are issued with the caller's context, not with the
\* context of the db span; no other step logs or counts.
C27_DatabaseLogsAndMetric ==
  [][\A g \in WrapperProcs :
       /\ DbEnters(g) =>
            LET f == stack'[g][Len(stack[g]) + 1]
            IN /\ EmittedDbLog("DEBUG", "Database operation started",
                               f.name, f.arg, f.ctx)
               /\ businessOpsCounter' = businessOpsCounter
       /\ DbReturns(g) =>
            LET f == Top(g)
                err == ret[g].body
            IN /\ IF err # Nil
                  THEN /\ EmittedDbLog("ERROR", "Database operation failed",
                                       f.name, f.arg, f.ctx)
                       /\ \E e \in BagToSet(exported') :
                            /\ CopiesIn(e, exported') > CopiesIn(e, exported)
                            /\ [key |-> "error", val |-> ErrorMsg(err)]
                                 \in e.attrs
                  ELSE EmittedDbLog("DEBUG", "Database operation completed",
                                    f.name, f.arg, f.ctx)
               /\ \E m \in BagToSet(businessOpsCounter') :
                    /\ businessOpsCounter' =
                         businessOpsCounter (+) SetToBag({m})
                    /\ m.value = 1
                    /\ m.ctx = f.ctx
                    /\ [key |-> "operation_type",
                        val |-> "database_operation"] \in m.attrs
                    /\ [key |-> "success", val |-> (err = Nil)] \in m.attrs
               /\ wret'[g].value = err
       /\ (exported' # exported \/ localSink' # localSink) =>
            DbEnters(g) \/ DbReturns(g)
       /\ businessOpsCounter' # businessOpsCounter => DbReturns(g)]_vars

\* a DatabaseOperation called with the context of an enclosing traced
\* operation has failed and returned: its failure log carries the
\* caller's span, and the counter has been incremented with success = FALSE
C27_Witness ==
  \E g \in WrapperProcs :
    /\ wret[g].op = "DatabaseOperation"
    /\ wret[g].ctx # NoSpan
    /\ wret[g].value # Nil
    /\ wret[g].span # wret[g].ctx
    /\ \E e \in BagToSet(exported) :
         /\ e.body = "Database operation failed"
         /\ [key |-> "span_id", val |-> wret[g].ctx] \in e.attrs
    /\ \E m \in BagToSet(businessOpsCounter) :
         /\ m.ctx = wret[g].ctx
         /\ [key |-> "success", val |-> FALSE] \in m.attrs

\* --------------------------------- a failed New and the global providers
\* the k-th call of New failed after initTracing had succeeded
FailedAfterTracing(k) ==
  /\ constructions[k].err # Nil
  /\ constructions[k].kit = <<>>
  /\ TraceExporterError(constructions[k].config) = Nil

\* the k-th call of New failed in initLogging after initMetrics succeeded
FailedAfterMetrics(k) ==
  /\ FailedAfterTracing(k)
  /\ constructions[k].config.EnableMetrics
  /\ MetricsExporterError(constructions[k].config) = Nil

\* a call of New reached otel.SetTracerProvider / otel.SetMeterProvider
ReachedTracer(k) == TraceExporterError(constructions[k].config) = Nil

ReachedMeter(k) ==
  /\ ReachedTracer(k)
  /\ constructions[k].config.EnableMetrics
  /\ MetricsExporterError(constructions[k].config) = Nil

\* no call of New after the k-th has registered a provider of its own
LastTracer(k) == \A j \in (k + 1)..Len(constructions) : ~ReachedTracer(j)
LastMeter(k) == \A j \in (k + 1)..Len(constructions) : ~ReachedMeter(j)

\* C28: when New fails after tracing was initialised it returns an error and
\* no Kit, and the tracer provider it created is the registered global
\* tracer provider (until a later call of New registers its own) and is not
\* shut down, not even by the Shutdown of the Kit that was registered
\* before; likewise the meter provider when the failure came after
\* initMetrics. What was registered before the call is not put back; a call
\* that fails before tracing is initialised registers nothing.
C28_FailedNewLeavesGlobals ==
  /\ \A k \in 1..Len(constructions) :
       /\ (FailedAfterTracing(k) /\ LastTracer(k)) =>
            /\ globalTracerProvider.set
            /\ globalTracerProvider.owner = k
            /\ ~globalTracerProvider.shutdown
       /\ (FailedAfterMetrics(k) /\ LastMeter(k)) =>
            /\ globalMeterProvider.set
            /\ globalMeterProvider.owner = k
            /\ ~globalMeterProvider.shutdown
  /\ (\A k \in 1..Len(constructions) : ~ReachedTracer(k)) =>
       /\ globalTracerProvider.owner = 0
       /\ globalMeterProvider.owner = 0

\* New has failed in initLogging, after both other providers were
\* registered, and the process has shut down the Kit it had before
C28_Witness ==
  /\ Len(constructions) = 1
  /\ FailedAfterMetrics(1)
  /\ Len(shutdowns) > 0
  /\ globalTracerProvider = ProviderOf(1)
  /\ globalMeterProvider = ProviderOf(1)

\* ------------------------------------------- the minimum log level
Severities == {"DEBUG", "INFO", "WARN", "ERROR"}

CallsOf(severity) ==
  Cardinality({i \in 1..Len(logCalls) : OpSeverity(logCalls[i].op) = severity})

ExportedOf(severity) ==
  LET recs == {e \in BagToSet(exported) : e.severity = severity}
      sub == [e \in recs |-> CopiesIn(e, exported)]
  IN BagCardinality(sub)

\* C29: the configured minimum level filters the local sink only: a Log
\* operation below that level leaves the local sink as it was and emits its
\* one record into the export pipeline all the same, so that what has been
\* exported is determined by the calls made, whatever the level is: one
\* record of a severity per call of that severity.
C29_LevelFiltersLocalSinkOnly ==
  /\ [][(LogStep /\ kit.config.EnableLogs
           /\ OpLevel(LastCall.op) < kit.config.LogLevel) =>
          /\ localSink' = localSink
          /\ EmittedOne(LastCall)]_vars
  /\ [](kit.config.EnableLogs =>
          \A severity \in Severities :
            ExportedOf(severity) = CallsOf(severity))

\* on a Kit whose minimum level is error, LogInfo and LogDebug have been
\* called: the local sink is empty and both records have been exported
C29_Witness ==
  /\ kit.config.EnableLogs
  /\ kit.config.LogLevel = LevelError
  /\ CallsOf("INFO") = 1
  /\ CallsOf("DEBUG") = 1
  /\ localSink = EmptyBag
  /\ ExportedOf("INFO") = 1
  /\ ExportedOf("DEBUG") = 1

\* ------------------------------------------------ a panicking handler
\* goroutine g serves a request whose handler has panicked (in its own
\* code or in a facade call it made); the middleware is unwinding
HandlerPanicked(g) ==
  /\ panic[g] # NoPanic
  /\ \/ panic[g].kind = "user"
     \/ panic[g].op = "RecordError" /\ stack[g] # <<>>

\* the request span holds nothing the middleware writes when a handler has
\* returned: no response attribute, and an error status only as the
\* handler's own RecordError left it
NoResponseOn(s) ==
  /\ ~HasKey(s.attrs, "http.status_code")
  /\ ~HasKey(s.attrs, "http.status_text")
  /\ s.status = "Error" =>
       \E e \in AllErrors : HasException(s, e) /\ s.desc = ErrorMsg(e)

\* C30: when the handler panics the middleware decrements the gauge and
\* then ends the request span, and does nothing else: no response attribute
\* and no error status on the span, no request counted, no duration
\* observed, no completion or failure log; the panic goes on to the
\* middleware's caller.
C30_HandlerPanicUnwinds ==
  /\ [](\A g \in HTTPProcs :
          (HandlerPanicked(g) /\ stack[g] # <<>>) =>
            LET f == stack[g][1]
            IN /\ f.pc \in {"deferDecr", "deferEnd"}
               /\ spans[f.span].endCount = 0
               /\ NoResponseOn(spans[f.span])
               /\ kit.activeSpansGauge =>
                    activeSpansGauge = IF f.pc = "deferDecr" THEN 1 ELSE 0)
  /\ [](\A g \in HTTPProcs :
          (panic[g].kind = "user" /\ stack[g] = <<>>) =>
            /\ activeSpansGauge = 0
            /\ spans[panic[g].ctx].endCount = 1
            /\ NoResponseOn(spans[panic[g].ctx]))
  /\ [][\A g \in HTTPProcs :
          (HandlerPanicked(g) \/ HandlerPanicked(g)') =>
            /\ httpRequestsTotal' = httpRequestsTotal
            /\ httpRequestDuration' = httpRequestDuration
            /\ localSink' = localSink
            /\ exported' = exported
            /\ HandlerPanicked(g) => panic' = panic]_vars

\* a handler has panicked on a Kit with metrics after an earlier request was
\* served: the middleware has unwound, the gauge is back at 0, the span is
\* ended without response attributes, one request only has been counted
C30_Witness ==
  \E g \in HTTPProcs :
    /\ kit.activeSpansGauge
    /\ kit.logger
    /\ panic[g].kind = "user"
    /\ panic[g].op = "HTTPMiddleware"
    /\ stack[g] = <<>>
    /\ Len(spans) = 2
    /\ spans[2].endCount = 1
    /\ ~HasKey(spans[2].attrs, "http.status_code")
    /\ HasKey(spans[1].attrs, "http.status_code")
    /\ BagCardinality(httpRequestsTotal) = 1

====
